---- MODULE Spec2Model ----
(***************************************************************************)
(* Verification model of qubic-js: the three-socket quorum engine of       *)
(* src/src/connection.js and the signed local ledger of src/src/client.js. *)
(*                                                                         *)
(* The module holds one state space and several specifications, one per    *)
(* subsystem; the actions of one subsystem leave the variables of the      *)
(* others unchanged.                                                       *)
(*   SpecQuorum : computer-state rounds (getComputerState, socket.onmessage*)
(*                GET_COMPUTER_STATE, computerStateSynchronizationRoutine) *)
(*   SpecLedger : transfer(), the processed rewrite, importReceipt(),      *)
(*                setEnergy() against the key-value store, with calls in   *)
(*                progress interleaving at their await points              *)
(*   SpecSequential : the same ledger with one call in progress at a time  *)
(*   SpecQuorumFair : SpecQuorum with its timers and routines weakly fair   *)
(*   SpecSockets : the three sockets and the publicPeers queue (setPeer,   *)
(*                onopen, onerror, onclose, the connect timeout, peer      *)
(*                exchange)                                                *)
(*   SpecSocketsFair : the socket handlers alone, timeouts and pending     *)
(*                closes weakly fair                                       *)
(*   SpecLaunch : the replay of an existing store at launch (onData,       *)
(*                onEnd)                                                   *)
(*   SpecImport : importReceipt() and setEnergy(), one call at a time      *)
(*   SpecEngine : SpecQuorum with close() called at any moment             *)
(*   SpecLifecycle : open(), close() and setPeer() called by the embedder, *)
(*                with the sockets and routines earlier calls leave behind *)
(*   SpecRelaunch : launch() called on a client whose constructor is       *)
(*                replaying a store, followed by transfers                 *)
(*   SpecReceipts : a replayed store with transfer-status results and      *)
(*                imported receipts coming in                              *)
(*   SpecRelaunchStatus : launch() followed by transfer-status results     *)
(*   SpecPoll : getTransferStatus and the slabs of GET_TRANSFER_STATUS     *)
(*                frames                                                   *)
(*   SpecEarlyCalls : transfer() and setEnergy() called while the replay   *)
(*                of the constructor is running                            *)
(*   SpecStatusRequests : the sending loop of getTransferStatus, the       *)
(*                resend sets and the answers of the computors             *)
(*   SpecStatusBytes : GET_TRANSFER_STATUS slabs carrying every value of   *)
(*                the status byte                                          *)
(*   SpecTimestamps : timestamp() under a wall clock that may stand still   *)
(*                or be set back                                           *)
(*   SpecFrames : socket.onmessage on messages that hold several frames    *)
(*   SpecShutdown : SpecEngine with client.terminate() called as well      *)
(*   SpecComputor : the single-socket computor client of unnamed/part_002, *)
(*                its reconnect timer weakly fair                          *)
(*   SpecDelivery : one transfer from its provisional record to the       *)
(*                `receipt` event, client and connection together, fair    *)
(***************************************************************************)
EXTENDS Integers, Sequences, FiniteSets, TLC

(***************************************************************************)
(* Bounds of the model.                                                    *)
(***************************************************************************)
\* number of getComputerState requests explored
MaxRounds == 2
\* number of computer-state frames delivered within one round
MaxArrivals == 3
\* number of distinct admin-signed payloads (epoch/tick/keys) peers may send
MaxPayload == 2
\* computerStateSynchronizationTimeoutDuration (connection.js:152), in units
\* of the default 500 ms
computerStateSynchronizationTimeoutDuration == 1
\* computerStateSynchronizationDelayDuration (connection.js:153), same unit
computerStateSynchronizationDelayDuration == 1
\* NUMBER_OF_PUBLIC_PEERS: 4 in the source (connection.js:73), the number of
\* addresses one peer-exchange reply appends to the queue
NUMBER_OF_PUBLIC_PEERS == 2
\* longest publicPeers queue explored
MaxQueue == 2
\* number of open() calls made after the one of the constructor
MaxOpens == 1
\* 26 * 26 in the source (connection.js:11); scaled down so that the
\* reporter x reported tally can be enumerated
NUMBER_OF_COMPUTORS == 4

(***************************************************************************)
(* Program constants.                                                      *)
(***************************************************************************)
NUMBER_OF_CONNECTIONS == 3

Slots == 0 .. (NUMBER_OF_CONNECTIONS - 1)

\* WebSocket readyState values
CONNECTING == 0
OPEN == 1
CLOSING == 2
CLOSED == 3

\* params.peers: the three addresses the connection is created with
peers == [i \in Slots |-> i]

\* the addresses peers gossip and setPeer is called with: one of the three
\* above and one that is none of them
Addresses == {peers[0], NUMBER_OF_CONNECTIONS}

DesyncAfter ==
  computerStateSynchronizationTimeoutDuration + computerStateSynchronizationDelayDuration

Min(a, b) == IF a < b THEN a ELSE b

\* a timer that clearTimeout has cancelled
Cleared == -1

\* one unit of time on a timer: a pending one comes closer, a due or cleared
\* one stays as it is
Elapse(timer) == IF timer > 0 THEN timer - 1 ELSE timer
Max(a, b) == IF a < b THEN b ELSE a

(***************************************************************************)
(* Computer-state responses.  A response carries the computorIndex, the    *)
(* signed payload (epoch, tick, timestamp and the computor public keys,    *)
(* abstracted to the tick) and a signature.  schnorrq is deterministic, so *)
(* the admin signature is a function of the signed region.                 *)
(***************************************************************************)
AdminSignature(computorIndex, tick) == <<"admin", computorIndex, tick>>
VoidSignature == <<"void", 0, 0>>

NoResponse == [computorIndex |-> -1, tick |-> 0, signature |-> <<"none", 0, 0>>]

\* connection.js:478-497: the computorIndex test and the schnorrq.verify call
VerifyComputerState(response) ==
  /\ response.computorIndex = NUMBER_OF_COMPUTORS
  /\ response.signature = AdminSignature(response.computorIndex, response.tick)

\* frames a peer may send: admin-issued snapshots, a snapshot with a void
\* signature, and a correctly signed record that is not admin-issued
ComputerStateResponses ==
  {[computorIndex |-> NUMBER_OF_COMPUTORS, tick |-> t,
    signature |-> AdminSignature(NUMBER_OF_COMPUTORS, t)] : t \in 1 .. MaxPayload}
  \cup {[computorIndex |-> NUMBER_OF_COMPUTORS, tick |-> 1, signature |-> VoidSignature]}
  \cup {[computorIndex |-> 0, tick |-> 1, signature |-> AdminSignature(0, 1)]}

EmptyResponses == [i \in Slots |-> NoResponse]

\* Array.prototype.length of the sparse array `responses`
ResponsesLength(responses) ==
  IF \A i \in Slots : responses[i] = NoResponse
  THEN 0
  ELSE 1 + (CHOOSE i \in Slots :
              /\ responses[i] # NoResponse
              /\ \A j \in Slots : responses[j] # NoResponse => j <= i)

\* responses.filter(response !== undefined): the slots that hold a response,
\* in slot order
FilledSlots(responses) ==
  SelectSeq([k \in 1 .. NUMBER_OF_CONNECTIONS |-> k - 1],
            LAMBDA i : responses[i] # NoResponse)

\* .filter(...).map(response.subarray(SIGNATURE_OFFSET, ...))
SignatureSlices(responses) ==
  [k \in 1 .. Len(FilledSlots(responses)) |-> responses[FilledSlots(responses)[k]].signature]

\* the while loop of compareResponses (connection.js:101-113)
RECURSIVE CompareLoop(_, _, _, _)
CompareLoop(responses, status, rightOffset, leftOffset) ==
  IF rightOffset < Len(responses)
  THEN CompareLoop(responses,
                   IF responses[leftOffset + 1] = responses[rightOffset + 1]
                   THEN status + 1 ELSE status,
                   rightOffset + 1, leftOffset)
  ELSE [status |-> status, rightOffset |-> rightOffset]

\* compareResponses starting every comparison at index 1
compareResponsesFromStart(responses, status, rightOffset, leftOffset, recompare) ==
  LET first == CompareLoop(responses, status, 1, leftOffset)
  IN IF Len(responses) = NUMBER_OF_CONNECTIONS /\ first.status = 1 /\ recompare
     THEN CompareLoop(responses, first.status, 2, 1)
     ELSE first

\* compareResponses (connection.js:94-118)
compareResponses(responses, status, rightOffset, leftOffset, recompare) ==
  LET first == CompareLoop(responses, status, rightOffset, leftOffset)
  IN IF Len(responses) = NUMBER_OF_CONNECTIONS /\ first.status = 1 /\ recompare
     THEN CompareLoop(responses, first.status, 2, 1)
     ELSE first

\* the index pairs compareResponses reads while it runs (instrumentation of
\* the loop above: <<leftOffset, rightOffset>> per iteration)
ComparedIndexes(responses, status, rightOffset) ==
  LET n == Len(responses)
      first == CompareLoop(responses, status, rightOffset, 0)
      loop1 == [k \in 1 .. Max(0, n - rightOffset) |-> <<0, rightOffset + k - 1>>]
  IN IF n = NUMBER_OF_CONNECTIONS /\ first.status = 1
     THEN loop1 \o <<(<<1, 2>>)>>
     ELSE loop1

SlotPairs == {<<0, 1>>, <<0, 2>>, <<1, 2>>}

(***************************************************************************)
(* State.                                                                  *)
(***************************************************************************)
VARIABLES
  \* ---- connection.js ----
  readyState,                                   \* sockets[i].readyState
  latestComputerState,                          \* status and published snapshot
  computerStateComparisonRightOffset,
  computerStateResponsesByTimestamp,            \* Map: request timestamp -> responses
  latestComputerStateRequestTimestamp,
  sinceSynchronization,                         \* Date.now() - latestComputerStateSynchronizationTimestamp, saturated
  requestTimer,                                 \* time left on the getComputerStateRoutine timer
  synchronizationTimer,                         \* time left on computerStateSynchronizationTimeout
  \* ---- observation of one round ----
  info,                                         \* status of the latest `info` event of the current round
  roundInfo,                                    \* statuses emitted by socket.onmessage in the current round
  arrivals,                                     \* computer-state frames delivered in the current round
  compared,                                     \* how often each pair of slots was compared in the current round
  \* ---- connection.js: the sockets ----
  ip,                                           \* sockets[i].ip
  timeout,                                      \* TRUE while the connect timeout of sockets[i] is pending
  publicPeers,                                  \* queue of gossiped addresses
  socketLog,                                    \* what the last socket step did, in order
  \* ---- connection.js: what open() calls after the first leave behind ----
  earlier,                                      \* per slot, the live sockets of earlier open() calls
  routines,                                     \* the timers of the routines later open() calls started
  handle,                                       \* the routine whose timer computerStateSynchronizationTimeout holds
  \* ---- client.js ----
  counter,
  energy,
  hashesByIndex,                                \* Map: numeric key -> transfer hash
  hashes,                                       \* Set of known transfer hashes
  AESCounter,                                   \* TRUE once the AESCounter promise is resolved
  database,                                     \* the key-value store
  listeners,                                    \* processTransferStatus: one infoListener per pending transfer
  tasks,                                        \* calls in progress, suspended at their await points
  calls,                                        \* number of calls made so far
  \* ---- observation of the client ----
  broadcasts,                                   \* hashes handed to connection.broadcastTransfer by transfer()
  receiptEvents,                                \* emitted `receipt` events
  lastBatch,                                    \* batch outcome of the call the last step finished
  lastError,                                    \* message of the Error the call made in the last step threw
  emitted,                                      \* events the last step emitted, in order
  \* ---- client.js: the replay of the store at launch ----
  stream,                                       \* 'data' keys and the 'end' the read stream has yet to deliver
  crypto,                                       \* the crypto promise: resolved or not, and the continuations awaiting it
  microtasks,                                   \* continuations ready to run, in order
  databaseSignature,
  latestUnprocessedTransaction,
  transfers,                                    \* Set of replayed transfers, in insertion order
  transferStatuses,
  receipts,
  replay,                                       \* the read stream launch() created, and the store as it was then
  \* ---- connection.js: transfer-status polls ----
  transferStatusResponsesStateByDigest,         \* Map: digest -> state of the poll
  polls,                                        \* number of getTransferStatus calls made so far
  transferStatusRequestsToResendByDigest,       \* Map: digest -> the requests of a finished sending loop
  requestLoops,                                 \* the sending loops of getTransferStatus calls, each at its timer
  requestsBySocket,                             \* per slot: requests waiting for socket.open, resends waiting
                                                \* for their timer, and the requests the last step sent
  \* ---- observation of a poll ----
  pollLog,                                      \* what the last step counted, emitted and resolved
  \* ---- unnamed/part_000: timestamp() ----
  latestStamp,                                  \* the module variable `t`: <<>> while undefined
  wallClock,                                    \* the wall clock, in milliseconds
  stamps,                                       \* the calls of timestamp() so far: clock reading and result
  \* ---- observation of socket.onmessage ----
  frameLog,                                     \* the last message and the frames the handler made of it
  \* ---- observation of close() and terminate() ----
  lastClose,                                    \* how the last call ended: "returned" or "threw"
  \* ---- unnamed/part_002: the single-socket computor client ----
  computor                                      \* closed, the socket, reconnectTimeout, requestsByType,
                                                \* responsesByType, and what was handed to socket.send

quorumVars ==
  <<readyState, latestComputerState, computerStateComparisonRightOffset,
    computerStateResponsesByTimestamp, latestComputerStateRequestTimestamp,
    sinceSynchronization, requestTimer, synchronizationTimer,
    info, roundInfo, arrivals, compared>>

socketVars == <<ip, timeout, publicPeers, socketLog>>

engineVars == <<earlier, routines, handle>>

\* the modules beside connection.js and client.js
moduleVars == <<latestStamp, wallClock, stamps, frameLog, lastClose, computor>>

\* the poll states and the observation of the last step
pollMaps == <<transferStatusResponsesStateByDigest, polls, pollLog>>

pollState == <<pollMaps, moduleVars>>

pollVars ==
  <<pollState, transferStatusRequestsToResendByDigest, requestLoops, requestsBySocket>>

\* everything connection.js holds
connectionVars == <<quorumVars, socketVars, engineVars, pollVars>>

ledgerVars ==
  <<counter, energy, hashesByIndex, hashes, AESCounter, database, listeners,
    tasks, calls, broadcasts, receiptEvents, lastBatch, lastError, emitted>>

launchVars ==
  <<stream, crypto, microtasks, databaseSignature, latestUnprocessedTransaction,
    transfers, transferStatuses, receipts, replay>>

vars == <<quorumVars, socketVars, engineVars, pollVars, ledgerVars, launchVars>>

\* no `info` event was emitted in the current round yet
NoInfo == -1

\* that.emit('info', {computerState: {status, ...}, peers})
EmitInfo(status) == status

NoComparisons == [p \in SlotPairs |-> 0]

\* per slot, the frames delivered in the current round: accepted into the
\* response table, rejected by the verifier, or echoing a dropped timestamp
NoArrivals == [i \in Slots |-> [accepted |-> 0, invalid |-> 0, stale |-> 0]]

RECURSIVE FrameCountUpTo(_, _)
FrameCountUpTo(a, i) ==
  IF i < 0 THEN 0
  ELSE a[i].accepted + a[i].invalid + a[i].stale + FrameCountUpTo(a, i - 1)

FrameCount(a) == FrameCountUpTo(a, NUMBER_OF_CONNECTIONS - 1)

(***************************************************************************)
(* client.js: the signed local ledger.                                     *)
(***************************************************************************)
\* number of transfer() / importReceipt() / setEnergy() calls explored
MaxCalls == 2
\* largest value the record counter is let reach
MaxCounter == 3
\* largest energy set by setEnergy and moved by a transfer
MaxEnergy == 1
\* number of calls and handler invocations in progress at the same time
MaxTasks == 2
\* largest numeric key of a record in the store a client is launched on
MaxRecords == 2

Tasks == 1 .. MaxTasks

Computors == 0 .. (NUMBER_OF_COMPUTORS - 1)

\* the literal 451 of client.js:767 and connection.js:763-771, for 676 computors
QuorumThreshold == (2 * NUMBER_OF_COMPUTORS) \div 3 + 1

\* Map.prototype.set / Map.prototype.delete
MapSet(map, key, value) ==
  [k \in DOMAIN map \cup {key} |-> IF k = key THEN value ELSE map[k]]

MapDelete(map, key) == [k \in DOMAIN map \ {key} |-> map[k]]

\* Array.from(map.values()).sort()
RECURSIVE SortedValues(_)
SortedValues(map) ==
  IF DOMAIN map = {} THEN <<>>
  ELSE LET k == CHOOSE k \in DOMAIN map : \A j \in DOMAIN map : map[k] <= map[j]
       IN <<map[k]>> \o SortedValues(MapDelete(map, k))

\* databaseEssence() (client.js:143-156) over the given counter, energy and map.
\* The counter is written as a uint32 and the energy as a uint64; the values
\* reached here stay below MaxCounter and MaxEnergy + 1, far from both widths.
databaseEssence(counterValue, energyValue, map) ==
  [counter |-> counterValue, energy |-> energyValue, hashes |-> SortedValues(map)]

NoEssence == [counter |-> -1, energy |-> -1, hashes |-> <<>>]

\* schnorrq.sign / schnorrq.verify with the key pair of the client's identity
Sign(message) == [publicKey |-> "self", message |-> message]

NoSignature == [publicKey |-> "none", message |-> NoEssence]

Verify(publicKey, message, signature) ==
  signature.publicKey = publicKey /\ signature.message = message

\* a run of frames: `count` slabs about transfer hash `transferHash`, reported
\* by computors 0 .. count-1, every 2-bit field of the bitfield decoding to `vote`
SlabRun(count, transferHash, signature, vote) ==
  [count |-> count, transferHash |-> transferHash, signature |-> signature, vote |-> vote]

NoSlabs == SlabRun(0, 0, FALSE, 0)

\* aes-ctr under the seed-derived key, the counter starting at the numeric key
Encrypt(aesCounter, plain) == [aesCounter |-> aesCounter, plain |-> plain]

NoPlain == [tag |-> -1, hash |-> 0, receipt |-> NoSlabs]

Decrypt(aesCounter, cipher) ==
  IF cipher.aesCounter = aesCounter THEN cipher.plain ELSE NoPlain

Absent == -1

EmptyDatabase ==
  [counter |-> Absent, energy |-> Absent, signature |-> NoSignature, records |-> <<>>]

\* the state onData (client.js:255-478) rebuilds from the store, as signed
\* material: what onEnd (client.js:485-492) verifies the stored signature on
ReplayedEssence(db) ==
  databaseEssence(IF db.counter = Absent THEN 0 ELSE db.counter,
                  IF db.energy = Absent THEN 0 ELSE db.energy,
                  [k \in {j \in DOMAIN db.records : Decrypt(j, db.records[j]).tag \in {0, 1}} |->
                     Decrypt(k, db.records[k]).hash])

(***************************************************************************)
(* Transfer-status slabs and receipts.                                     *)
(***************************************************************************)
\* the slabs of a run
Slabs(run) ==
  {[transferHash |-> run.transferHash, computorIndex |-> i, signature |-> run.signature,
    votes |-> [j \in Computors |-> run.vote]] : i \in 0 .. (run.count - 1)}

\* statuses[computorIndex][j] of the slabs that passed the signature check
StatusesOf(slabs) ==
  [i \in {s.computorIndex : s \in slabs} |->
     (CHOOSE s \in slabs : s.computorIndex = i).votes]

\* report[0..3] over all ordered pairs i # j
Report(statuses) ==
  [v \in 0 .. 3 |->
     Cardinality({p \in Computors \X Computors :
        /\ p[1] # p[2]
        /\ IF p[1] \in DOMAIN statuses THEN statuses[p[1]][p[2]] = v ELSE v = 3})]

Floor(report, v) == report[v] \div (NUMBER_OF_COMPUTORS - 1)

NoReceipt ==
  [transfer |-> [hash |-> 0, source |-> "none", destination |-> "none", energy |-> 0],
   transferSignature |-> FALSE, computerState |-> FALSE, slabs |-> NoSlabs]

\* what connection.getTransferStatus(h) resolves with once the frames `slabs`
\* have come in (connection.js:607-805)
TransferStatusResponse(h, run) ==
  LET verified == {s \in Slabs(run) : s.transferHash = h /\ s.signature}
      report == Report(StatusesOf(verified))
      computorReports == {s \in verified : \E j \in Computors : s.votes[j] = 2}
  IN [resolved |-> \E v \in 0 .. 2 : Floor(report, v) >= QuorumThreshold,
      hash |-> h,
      receipt |-> IF Floor(report, 2) >= QuorumThreshold
                  THEN CHOOSE r \in {run, NoSlabs} : Slabs(r) = computorReports
                  ELSE NoSlabs,
      hasReceipt |-> Floor(report, 2) >= QuorumThreshold]

PolledSlabs(h) ==
  {SlabRun(k, h, TRUE, vote) : k \in {QuorumThreshold - 1, QuorumThreshold}, vote \in {1, 2}}
    \cup {SlabRun(QuorumThreshold, h, FALSE, 2)}

\* TransferStatusResponse tabulated over the hashes transfer() creates, the
\* hashes of the transfers a store holds at launch, and the frames polled for
\* them
StatusResponses ==
  [p \in UNION {{<<h, run>> : run \in PolledSlabs(h)} : h \in 1 .. (MaxCalls + MaxRecords)} |->
     TransferStatusResponse(p[1], p[2])]

IncomingTransfer == [hash |-> 101, source |-> "other", destination |-> "self", energy |-> 1]
OutgoingTransfer == [hash |-> 102, source |-> "self", destination |-> "other", energy |-> 1]

Receipt(transfer, transferSignature, computerState, slabs) ==
  [transfer |-> transfer, transferSignature |-> transferSignature,
   computerState |-> computerState, slabs |-> slabs]

\* the receipts handed to importReceipt
Receipts ==
  {Receipt(x, TRUE, TRUE, SlabRun(QuorumThreshold, x.hash, TRUE, 2)) :
     x \in {IncomingTransfer, OutgoingTransfer}}
    \cup {Receipt(IncomingTransfer, FALSE, TRUE, SlabRun(QuorumThreshold, 101, TRUE, 2)),
          Receipt(OutgoingTransfer, TRUE, FALSE, SlabRun(QuorumThreshold, 102, TRUE, 2)),
          Receipt(IncomingTransfer, TRUE, TRUE, SlabRun(QuorumThreshold - 1, 101, TRUE, 2)),
          Receipt(IncomingTransfer, TRUE, TRUE, SlabRun(QuorumThreshold, 101, FALSE, 2)),
          Receipt(IncomingTransfer, TRUE, TRUE, SlabRun(QuorumThreshold, 101, TRUE, 1)),
          Receipt(IncomingTransfer, TRUE, TRUE, SlabRun(QuorumThreshold, 102, TRUE, 2))}

\* transfers between this identity and itself, and between two other identities
SelfTransfer == [hash |-> 103, source |-> "self", destination |-> "self", energy |-> 1]
ForeignTransfer == [hash |-> 104, source |-> "other", destination |-> "third", energy |-> 1]

\* the receipts handed to importReceipt where the claim is about the four
\* cases of source and destination: the ones above, and accepted receipts of
\* the two transfers that leave the energy alone
ImportedReceipts ==
  Receipts
    \cup {Receipt(x, TRUE, TRUE, SlabRun(QuorumThreshold, x.hash, TRUE, 2)) :
            x \in {SelfTransfer, ForeignTransfer}}

\* transfer.js:28, with energies counted in units of MIN_ENERGY_AMOUNT
MIN_ENERGY_AMOUNT == 1

\* identities handed to transfer(): this client's, another valid one, and one
\* whose checksum is wrong
Destinations == {"self", "other", "invalid"}

\* verifyChecksum (identity.js), on the identities above
verifyChecksum(identity) == identity # "invalid"

NoError == "none"

\* client.js:135
NoUnprocessedTransaction == [index |-> -1, hash |-> 0, timestamp |-> 0]

\* that.emit(type, ...): the transfer the event is about (0 when it is about
\* none) and the energy it carries
Event(type, hash, value) == [type |-> type, hash |-> hash, value |-> value]

\* the Error thrown on the way to `await AESCounter`: client.js:573-575, then
\* transfer.js:69-84 (the source is this client's identity)
TransferError(destination, amount, currentEnergy) ==
  IF currentEnergy < amount THEN "Insufficient energy."
  ELSE IF ~verifyChecksum("self") THEN "Invalid checksum"
  ELSE IF ~verifyChecksum(destination) THEN "Invalid checksum"
  ELSE IF amount < MIN_ENERGY_AMOUNT THEN "Illegal energy."
  ELSE NoError

NoTask ==
  [op |-> "none", pc |-> "idle", hash |-> 0, destination |-> "none", amount |-> 0,
   key |-> 0, counterValue |-> 0, energyCopy |-> 0, newEnergy |-> 0,
   essence |-> NoEssence, receipt |-> NoReceipt, batch |-> "none"]

\* how a chained batch ends: written, a synchronous throw, or a promise
\* rejected by write()
BatchOutcomes == {"ok", "throw", "reject"}

\* what `await batch.write()` inside try/catch makes of it
Awaited(outcome) == IF outcome = "ok" THEN "ok" ELSE "caught"

(***************************************************************************)
(* client(): a fresh store; the read stream has not ended yet.             *)
(***************************************************************************)
\* launch() has not been called: no second read stream
NoReplay == [launched |-> FALSE, events |-> <<>>, snapshot |-> EmptyDatabase]

\* the fields of client(), before anything was read from the store
InitClient ==
  /\ counter = 0
  /\ energy = 0
  /\ hashesByIndex = <<>>
  /\ hashes = {}
  /\ AESCounter = FALSE
  /\ listeners = <<>>
  /\ tasks = [t \in Tasks |-> NoTask]
  /\ calls = 0
  /\ broadcasts = {}
  /\ receiptEvents = {}
  /\ lastBatch = "none"
  /\ lastError = NoError
  /\ emitted = <<>>
  /\ crypto = [resolved |-> FALSE, reactions |-> <<>>]
  /\ microtasks = <<>>
  /\ databaseSignature = NoSignature
  /\ latestUnprocessedTransaction = NoUnprocessedTransaction
  /\ transfers = <<>>
  /\ transferStatuses = <<>>
  /\ receipts = <<>>

InitMemory ==
  /\ InitClient
  /\ replay = NoReplay

\* the ledger specifications start from a fresh store and do not follow its
\* read stream record by record
InitLedger ==
  /\ InitMemory
  /\ database = EmptyDatabase
  /\ stream = <<>>

(***************************************************************************)
(* connection(): the constructor ends with connection.open(), which opens  *)
(* the three sockets, issues the first getComputerState and runs           *)
(* computerStateSynchronizationRoutine once (Date.now() - 0 exceeds the    *)
(* limit, so it publishes status 0).                                       *)
(***************************************************************************)
InitQuorum ==
  /\ readyState = [i \in Slots |-> CONNECTING]
  /\ latestComputerState = [status |-> 0, tick |-> 0, bytes |-> NoResponse]
  /\ computerStateComparisonRightOffset = 1
  /\ latestComputerStateRequestTimestamp = 1
  /\ computerStateResponsesByTimestamp = [ts \in {1} |-> EmptyResponses]
  /\ sinceSynchronization = DesyncAfter + 1
  /\ requestTimer = computerStateSynchronizationTimeoutDuration
  /\ synchronizationTimer = DesyncAfter
  /\ info = EmitInfo(0)
  /\ roundInfo = <<>>
  /\ arrivals = NoArrivals
  /\ compared = NoComparisons

(***************************************************************************)
(* open() (connection.js:398-424, 875-878): one socket per slot towards    *)
(* peers[i], each with its connect timeout pending; publicPeers is empty.  *)
(***************************************************************************)
\* no poll was started, and no step of one was taken
NoPollLog ==
  [started |-> FALSE, threw |-> FALSE, counted |-> <<>>, events |-> <<>>, resolutions |-> <<>>]

\* computor() of unnamed/part_002 after construction: open() has created the
\* socket (part_002:70-84, 169), nothing was sent
InitComputor ==
  [closed |-> FALSE, readyState |-> CONNECTING, opened |-> FALSE, onclose |-> TRUE,
   reconnectTimeout |-> FALSE, requestsByType |-> <<>>, responsesByType |-> <<>>,
   awaitingOpen |-> <<>>, sent |-> <<>>, sockets |-> 1, closeCalled |-> FALSE]

\* no message has come in
NoFrames == [data |-> <<>>, dispatched |-> <<>>]

\* a socket no status request was handed to
NoRequests == [awaitingOpen |-> <<>>, toResend |-> <<>>, sent |-> <<>>]

\* the step sends no status request
Quiet(requests) == [i \in Slots |-> [requests[i] EXCEPT !.sent = <<>>]]

InitPolls ==
  /\ transferStatusResponsesStateByDigest = <<>>
  /\ polls = 0
  /\ pollLog = NoPollLog
  /\ latestStamp = <<>>
  /\ wallClock = 0
  /\ stamps = <<>>
  /\ frameLog = NoFrames
  /\ lastClose = "none"
  /\ computor = InitComputor
  /\ transferStatusRequestsToResendByDigest = <<>>
  /\ requestLoops = <<>>
  /\ requestsBySocket = [i \in Slots |-> NoRequests]

InitSockets ==
  /\ ip = [i \in Slots |-> peers[i]]
  /\ timeout = [i \in Slots |-> TRUE]
  /\ publicPeers = <<>>
  /\ socketLog = <<>>
  /\ earlier = [i \in Slots |-> 0]
  /\ routines = <<>>
  /\ handle = 0

Init == InitQuorum /\ InitSockets /\ InitPolls /\ InitLedger

(***************************************************************************)
(* getComputerStateRoutine / getComputerState (connection.js:182-209,      *)
(* 880-884): drops the table of the previous request, registers an empty   *)
(* table under the new timestamp and re-arms the timer.  Neither the       *)
(* status nor the comparison offset is touched.                            *)
(***************************************************************************)
getComputerState ==
  /\ requestTimer = 0
  /\ latestComputerStateRequestTimestamp < MaxRounds
  /\ LET ts == latestComputerStateRequestTimestamp + 1
         kept == DOMAIN computerStateResponsesByTimestamp
                   \ {latestComputerStateRequestTimestamp}
     IN /\ latestComputerStateRequestTimestamp' = ts
        /\ computerStateResponsesByTimestamp' =
             [k \in kept \cup {ts} |->
                IF k = ts THEN EmptyResponses ELSE computerStateResponsesByTimestamp[k]]
  /\ requestTimer' = computerStateSynchronizationTimeoutDuration
  /\ info' = NoInfo
  /\ roundInfo' = <<>>
  /\ arrivals' = NoArrivals
  /\ compared' = NoComparisons
  /\ UNCHANGED socketVars
  /\ UNCHANGED <<pollVars, ledgerVars, launchVars, engineVars>>
  /\ UNCHANGED <<readyState, latestComputerState, computerStateComparisonRightOffset,
                 sinceSynchronization, synchronizationTimer>>

(***************************************************************************)
(* A variant of computerStateSynchronizationRoutine that publishes status  *)
(* 0 and leaves the comparison offset where it is.                         *)
(***************************************************************************)
computerStateSynchronizationRoutineKeepsOffset ==
  /\ synchronizationTimer = 0
  /\ IF sinceSynchronization > DesyncAfter
     THEN /\ latestComputerState' = [latestComputerState EXCEPT !.status = 0]
          /\ info' = EmitInfo(0)
          /\ UNCHANGED computerStateComparisonRightOffset
     ELSE UNCHANGED <<latestComputerState, computerStateComparisonRightOffset, info>>
  /\ synchronizationTimer' = DesyncAfter
  /\ UNCHANGED socketVars
  /\ UNCHANGED <<pollVars, ledgerVars, launchVars>>
  /\ handle' = 0
  /\ UNCHANGED <<earlier, routines>>
  /\ UNCHANGED <<readyState, computerStateResponsesByTimestamp,
                 latestComputerStateRequestTimestamp, sinceSynchronization,
                 requestTimer, roundInfo, arrivals, compared>>

(***************************************************************************)
(* computerStateSynchronizationRoutine (connection.js:362-380).            *)
(***************************************************************************)
computerStateSynchronizationRoutine ==
  /\ synchronizationTimer = 0
  /\ IF sinceSynchronization > DesyncAfter
     THEN /\ latestComputerState' = [latestComputerState EXCEPT !.status = 0]
          /\ computerStateComparisonRightOffset' = 1
          /\ info' = EmitInfo(0)
     ELSE UNCHANGED <<latestComputerState, computerStateComparisonRightOffset, info>>
  /\ synchronizationTimer' = DesyncAfter
  /\ UNCHANGED socketVars
  /\ UNCHANGED <<pollVars, ledgerVars, launchVars>>
  /\ handle' = 0
  /\ UNCHANGED <<earlier, routines>>
  /\ UNCHANGED <<readyState, computerStateResponsesByTimestamp,
                 latestComputerStateRequestTimestamp, sinceSynchronization,
                 requestTimer, roundInfo, arrivals, compared>>

(***************************************************************************)
(* Passage of one unit of time.  A timer that is due fires before time     *)
(* moves on (once MaxRounds requests were issued the polling timer is no   *)
(* longer followed).                                                       *)
(***************************************************************************)
Tick ==
  /\ synchronizationTimer # 0
  /\ requestTimer > 0 \/ latestComputerStateRequestTimestamp >= MaxRounds
  /\ \A k \in 1 .. Len(routines) :
       /\ routines[k].synchronization # 0
       /\ routines[k].request > 0
            \/ latestComputerStateRequestTimestamp >= MaxRounds + MaxOpens
  /\ synchronizationTimer' = Elapse(synchronizationTimer)
  /\ requestTimer' = Elapse(requestTimer)
  /\ routines' = [k \in 1 .. Len(routines) |->
                    [request |-> Elapse(routines[k].request),
                     synchronization |-> Elapse(routines[k].synchronization)]]
  /\ sinceSynchronization' = Min(sinceSynchronization + 1, DesyncAfter + 1)
  /\ UNCHANGED socketVars
  /\ UNCHANGED <<pollVars, ledgerVars, launchVars, earlier, handle>>
  /\ UNCHANGED <<readyState, latestComputerState, computerStateComparisonRightOffset,
                 computerStateResponsesByTimestamp, latestComputerStateRequestTimestamp,
                 info, roundInfo, arrivals, compared>>

(***************************************************************************)
(* socket.onopen (connection.js:426-456): emits `info` with the status     *)
(* currently held, resolves socket.open, so that the status requests       *)
(* waiting for it are sent right after the handler, and arms one 100 ms    *)
(* timer per request of every resend set.                                  *)
(***************************************************************************)
\* transferStatusRequestsToResendByDigest.forEach(requests => requests.forEach(...))
RECURSIVE RequestsToResend(_)
RequestsToResend(map) ==
  IF DOMAIN map = {} THEN <<>>
  ELSE LET digest == CHOOSE d \in DOMAIN map : \A e \in DOMAIN map : d <= e
       IN map[digest] \o RequestsToResend(MapDelete(map, digest))

onopen(i) ==
  /\ readyState[i] = CONNECTING
  /\ readyState' = [readyState EXCEPT ![i] = OPEN]
  /\ info' = EmitInfo(latestComputerState.status)
  /\ timeout' = [timeout EXCEPT ![i] = FALSE]
  /\ socketLog' = <<>>
  /\ requestsBySocket' =
       [Quiet(requestsBySocket) EXCEPT ![i] =
          [awaitingOpen |-> <<>>,
           toResend |-> RequestsToResend(transferStatusRequestsToResendByDigest),
           sent |-> requestsBySocket[i].awaitingOpen]]
  /\ UNCHANGED <<ip, publicPeers>>
  /\ UNCHANGED <<pollState, transferStatusRequestsToResendByDigest, requestLoops>>
  /\ UNCHANGED <<ledgerVars, launchVars, engineVars>>
  /\ UNCHANGED <<latestComputerState, computerStateComparisonRightOffset,
                 computerStateResponsesByTimestamp, latestComputerStateRequestTimestamp,
                 sinceSynchronization, requestTimer, synchronizationTimer,
                 roundInfo, arrivals, compared>>

(***************************************************************************)
(* socket.onmessage, case GET_COMPUTER_STATE (connection.js:472-606), for  *)
(* a frame `response` echoing `responseTimestamp` on socket i.             *)
(***************************************************************************)
ReceiveComputerState(i, response, responseTimestamp) ==
  /\ FrameCount(arrivals) < MaxArrivals
  /\ arrivals' =
       [arrivals EXCEPT ![i] =
          IF ~VerifyComputerState(response)
          THEN [@ EXCEPT !.invalid = @ + 1]
          ELSE IF responseTimestamp \notin DOMAIN computerStateResponsesByTimestamp
          THEN [@ EXCEPT !.stale = @ + 1]
          ELSE [@ EXCEPT !.accepted = @ + 1]]
  /\ IF VerifyComputerState(response)
        /\ responseTimestamp \in DOMAIN computerStateResponsesByTimestamp
     THEN LET responses == [computerStateResponsesByTimestamp[responseTimestamp]
                              EXCEPT ![i] = response]
          IN IF ResponsesLength(responses) = 1
             THEN \* connection.js:511-525
                  /\ computerStateResponsesByTimestamp' =
                       [computerStateResponsesByTimestamp
                          EXCEPT ![responseTimestamp] = responses]
                  /\ latestComputerState' = [latestComputerState EXCEPT !.status = 1]
                  /\ info' = EmitInfo(1)
                  /\ roundInfo' = Append(roundInfo, 1)
                  /\ UNCHANGED <<computerStateComparisonRightOffset,
                                 sinceSynchronization, compared>>
             ELSE \* connection.js:527-601
                  LET slices == SignatureSlices(responses)
                      slots == FilledSlots(responses)
                      result == compareResponses(slices, latestComputerState.status,
                                                 computerStateComparisonRightOffset,
                                                 0, TRUE)
                      pairs == ComparedIndexes(slices, latestComputerState.status,
                                               computerStateComparisonRightOffset)
                      increased == latestComputerState.status < result.status
                      dropped == ResponsesLength(responses) = NUMBER_OF_COMPUTORS
                  IN /\ computerStateComparisonRightOffset' = result.rightOffset
                     /\ compared' =
                          [p \in SlotPairs |->
                             compared[p] +
                               Cardinality({k \in 1 .. Len(pairs) :
                                  <<slots[pairs[k][1] + 1], slots[pairs[k][2] + 1]>> = p})]
                     /\ IF increased
                        THEN /\ sinceSynchronization' = 0
                             /\ info' = EmitInfo(result.status)
                             /\ roundInfo' = Append(roundInfo, result.status)
                        ELSE UNCHANGED <<sinceSynchronization, info, roundInfo>>
                     /\ latestComputerState' =
                          [status |-> IF dropped THEN 0
                                      ELSE IF increased THEN result.status
                                      ELSE latestComputerState.status,
                           tick |-> IF increased THEN response.tick
                                    ELSE latestComputerState.tick,
                           bytes |-> IF increased THEN response
                                     ELSE latestComputerState.bytes]
                     /\ computerStateResponsesByTimestamp' =
                          IF dropped
                          THEN [k \in DOMAIN computerStateResponsesByTimestamp
                                       \ {responseTimestamp} |->
                                  computerStateResponsesByTimestamp[k]]
                          ELSE [computerStateResponsesByTimestamp
                                  EXCEPT ![responseTimestamp] = responses]
     ELSE UNCHANGED <<latestComputerState, computerStateComparisonRightOffset,
                      computerStateResponsesByTimestamp, sinceSynchronization,
                      info, roundInfo, compared>>
  /\ UNCHANGED <<latestComputerStateRequestTimestamp, requestTimer, synchronizationTimer>>

\* the frame arrives on the socket the engine holds in slot i
onmessageComputerState(i, response, responseTimestamp) ==
  /\ readyState[i] = OPEN
  /\ ReceiveComputerState(i, response, responseTimestamp)
  /\ UNCHANGED socketVars
  /\ UNCHANGED <<pollVars, ledgerVars, launchVars, engineVars>>
  /\ UNCHANGED readyState

\* the timestamps a peer may echo: the pending request or the one before it
EchoedTimestamps ==
  {latestComputerStateRequestTimestamp, latestComputerStateRequestTimestamp - 1}

NextQuorum ==
  \/ getComputerState
  \/ computerStateSynchronizationRoutine
  \/ Tick
  \/ \E i \in Slots : onopen(i)
  \/ \E i \in Slots, response \in ComputerStateResponses, ts \in EchoedTimestamps :
       onmessageComputerState(i, response, ts)

SpecQuorum == Init /\ [][NextQuorum]_vars

\* time passes and the two setTimeout timers of connection.js:376-379 and
\* 880-883 fire when they are due
FairnessQuorum ==
  /\ WF_vars(Tick)
  /\ WF_vars(getComputerState)
  /\ WF_vars(computerStateSynchronizationRoutine)

SpecQuorumFair == SpecQuorum /\ FairnessQuorum

(***************************************************************************)
(* connection.js: open() and close() called by the embedder (client.js:919 *)
(* and 894, or directly).  open() with no index starts from an empty       *)
(* `sockets` array without touching the sockets it held, and starts one    *)
(* more getComputerStateRoutine and one more                               *)
(* computerStateSynchronizationRoutine; close() terminates the sockets of  *)
(* the array and clears the one timer computerStateSynchronizationTimeout  *)
(* refers to.                                                              *)
(***************************************************************************)
\* a socket that is connecting or connected
Live(state) == state \in {CONNECTING, OPEN}

\* the body of computerStateSynchronizationRoutine (connection.js:363-375)
\* as part of a larger step
SynchronizationCheck ==
  IF sinceSynchronization > DesyncAfter
  THEN /\ latestComputerState' = [latestComputerState EXCEPT !.status = 0]
       /\ computerStateComparisonRightOffset' = 1
       /\ info' = EmitInfo(0)
  ELSE UNCHANGED <<latestComputerState, computerStateComparisonRightOffset, info>>

\* the body of getComputerState (connection.js:182-209) as part of a larger
\* step
NewRequest ==
  /\ latestComputerStateRequestTimestamp < MaxRounds + MaxOpens
  /\ LET ts == latestComputerStateRequestTimestamp + 1
         kept == DOMAIN computerStateResponsesByTimestamp
                   \ {latestComputerStateRequestTimestamp}
     IN /\ latestComputerStateRequestTimestamp' = ts
        /\ computerStateResponsesByTimestamp' =
             [k \in kept \cup {ts} |->
                IF k = ts THEN EmptyResponses ELSE computerStateResponsesByTimestamp[k]]
  /\ roundInfo' = <<>>
  /\ arrivals' = NoArrivals
  /\ compared' = NoComparisons

\* what open() does to the connection (connection.js:398-402, 875-885)
OpenSockets ==
  /\ Len(routines) < MaxOpens
  /\ earlier' = [i \in Slots |-> earlier[i] + (IF Live(readyState[i]) THEN 1 ELSE 0)]
  /\ readyState' = [i \in Slots |-> CONNECTING]
  /\ ip' = [i \in Slots |-> peers[i]]
  /\ timeout' = [i \in Slots |-> TRUE]
  /\ socketLog' = <<>>
  /\ NewRequest
  /\ IF sinceSynchronization > DesyncAfter
     THEN /\ latestComputerState' = [latestComputerState EXCEPT !.status = 0]
          /\ computerStateComparisonRightOffset' = 1
          /\ info' = EmitInfo(0)
     ELSE /\ info' = NoInfo
          /\ UNCHANGED <<latestComputerState, computerStateComparisonRightOffset>>
  /\ routines' = Append(routines, [request |-> computerStateSynchronizationTimeoutDuration,
                                   synchronization |-> DesyncAfter])
  /\ handle' = Len(routines) + 1
  /\ UNCHANGED <<publicPeers, sinceSynchronization, requestTimer, synchronizationTimer>>

\* the public open() (connection.js:905-907)
open ==
  /\ OpenSockets
  /\ requestsBySocket' = [i \in Slots |-> NoRequests]
  /\ UNCHANGED <<pollState, transferStatusRequestsToResendByDigest, requestLoops>>
  /\ UNCHANGED <<ledgerVars, launchVars>>

\* the body of close() (connection.js:342-357): the sockets are terminated,
\* the timer computerStateSynchronizationTimeout holds is cleared and the
\* status set to 0; the `info` event spreads
\* latestComputerState.computorPublicKeys, which is undefined until a
\* snapshot was published, and the spread of undefined throws
CloseConnection ==
  /\ readyState' = [i \in Slots |-> IF Live(readyState[i]) THEN CLOSING ELSE readyState[i]]
  /\ timeout' = [i \in Slots |-> FALSE]
  /\ socketLog' = <<>>
  /\ IF handle = 0
     THEN /\ synchronizationTimer' = Cleared
          /\ UNCHANGED routines
     ELSE /\ routines' = [routines EXCEPT ![handle].synchronization = Cleared]
          /\ UNCHANGED synchronizationTimer
  /\ latestComputerState' = [latestComputerState EXCEPT !.status = 0]
  /\ IF latestComputerState.bytes = NoResponse
     THEN /\ lastClose' = "threw"
          /\ UNCHANGED info
     ELSE /\ lastClose' = "returned"
          /\ info' = EmitInfo(0)
  /\ UNCHANGED <<ip, publicPeers, earlier, handle>>
  /\ UNCHANGED <<computerStateComparisonRightOffset, computerStateResponsesByTimestamp,
                 latestComputerStateRequestTimestamp, sinceSynchronization, requestTimer,
                 roundInfo, arrivals, compared>>
  /\ UNCHANGED <<pollMaps, latestStamp, wallClock, stamps, frameLog, computor,
                 transferStatusRequestsToResendByDigest, requestLoops, requestsBySocket>>

\* the public close()
close ==
  /\ CloseConnection
  /\ UNCHANGED <<ledgerVars, launchVars>>

\* client.terminate({closeConnection}) (client.js:892-901): connection.close()
\* if asked for; an exception of close() rejects the call before the read
\* stream is destroyed and the info listeners are removed
terminate(closeConnection) ==
  /\ IF closeConnection
     THEN CloseConnection
     ELSE /\ lastClose' = "returned"
          /\ UNCHANGED <<quorumVars, socketVars, engineVars>>
          /\ UNCHANGED <<pollMaps, latestStamp, wallClock, stamps, frameLog, computor,
                         transferStatusRequestsToResendByDigest, requestLoops,
                         requestsBySocket>>
  /\ IF closeConnection /\ latestComputerState.bytes = NoResponse
     THEN UNCHANGED <<stream, listeners>>
     ELSE /\ stream' = <<>>
          /\ listeners' = <<>>
  /\ UNCHANGED <<counter, energy, hashesByIndex, hashes, AESCounter, database, tasks, calls,
                 broadcasts, receiptEvents, lastBatch, lastError, emitted>>
  /\ UNCHANGED <<crypto, microtasks, databaseSignature, latestUnprocessedTransaction,
                 transfers, transferStatuses, receipts, replay>>

\* a socket that close() terminated ends its closing handshake; terminate()
\* removed its onclose handler (connection.js:420-424)
terminated(i) ==
  /\ readyState[i] = CLOSING
  /\ ~timeout[i]
  /\ readyState' = [readyState EXCEPT ![i] = CLOSED]
  /\ socketLog' = <<>>
  /\ UNCHANGED <<ip, timeout, publicPeers, engineVars>>
  /\ UNCHANGED <<latestComputerState, computerStateComparisonRightOffset,
                 computerStateResponsesByTimestamp, latestComputerStateRequestTimestamp,
                 sinceSynchronization, requestTimer, synchronizationTimer,
                 info, roundInfo, arrivals, compared>>
  /\ UNCHANGED <<pollVars, ledgerVars, launchVars>>

\* getComputerStateRoutine of the k-th later open() (connection.js:880-883)
getComputerStateRoutine(k) ==
  /\ routines[k].request = 0
  /\ NewRequest
  /\ info' = NoInfo
  /\ routines' = [routines EXCEPT ![k].request = computerStateSynchronizationTimeoutDuration]
  /\ UNCHANGED <<socketVars, earlier, handle>>
  /\ UNCHANGED <<readyState, latestComputerState, computerStateComparisonRightOffset,
                 sinceSynchronization, requestTimer, synchronizationTimer>>
  /\ UNCHANGED <<pollVars, ledgerVars, launchVars>>

\* computerStateSynchronizationRoutine in the chain of timers the k-th later
\* open() started (connection.js:362-380)
laterSynchronizationRoutine(k) ==
  /\ routines[k].synchronization = 0
  /\ SynchronizationCheck
  /\ routines' = [routines EXCEPT ![k].synchronization = DesyncAfter]
  /\ handle' = k
  /\ UNCHANGED <<socketVars, earlier>>
  /\ UNCHANGED <<readyState, computerStateResponsesByTimestamp,
                 latestComputerStateRequestTimestamp, sinceSynchronization,
                 requestTimer, synchronizationTimer, roundInfo, arrivals, compared>>
  /\ UNCHANGED <<pollVars, ledgerVars, launchVars>>

\* a socket of an earlier open() closes (connection.js:849-872 with an empty
\* publicPeers queue: the handler emits `close` and changes nothing)
oncloseEarlierSocket(i) ==
  /\ earlier[i] > 0
  /\ publicPeers = <<>>
  /\ earlier' = [earlier EXCEPT ![i] = @ - 1]
  /\ socketLog' = <<>>
  /\ UNCHANGED <<ip, timeout, publicPeers, routines, handle>>
  /\ UNCHANGED quorumVars
  /\ UNCHANGED <<pollVars, ledgerVars, launchVars>>

\* rounds, arrivals and timeouts with close() called at any moment
NextEngine ==
  \/ NextQuorum
  \/ close
  \/ \E i \in Slots : terminated(i)

SpecEngine == Init /\ [][NextEngine]_vars

\* rounds, arrivals and timeouts with close() and client.terminate() called
\* at any moment
NextShutdown ==
  \/ NextQuorum
  \/ close
  \/ \E closeConnection \in BOOLEAN : terminate(closeConnection)
  \/ \E i \in Slots : terminated(i)

SpecShutdown == Init /\ [][NextShutdown]_vars

(***************************************************************************)
(* connection.js: the life of the three sockets.  A socket that setPeer    *)
(* replaces was terminated first (its timeout cleared, its onclose         *)
(* removed), so only the current socket of a slot acts.                    *)
(***************************************************************************)
\* one entry of socketLog: an emitted event ("error", "close"), a call of
\* socket.terminate ("terminate"), a socket created by openSocket ("open"),
\* a request handed to exchangePublicPeers ("exchangePublicPeers") or a call
\* of setPeer by the embedder ("setPeer")
Did(what, slot) == [what |-> what, slot |-> slot]

\* the part of the state setPeer and the handlers calling it work on
Sockets(ips, states, timeouts, queue, log) ==
  [ip |-> ips, readyState |-> states, timeout |-> timeouts, publicPeers |-> queue,
   log |-> log]

\* setPeer that restarts the socket whatever its address
SetPeerAlways(st, index, address) ==
  [st EXCEPT !.ip[index] = address,
             !.readyState[index] = CONNECTING,
             !.timeout[index] = TRUE,
             !.log = @ \o <<Did("terminate", index),
                            Did("open", index)>>]

\* setPeer(index, ip) (connection.js:391-396) with open(index, ip) and
\* openSocket(index) (connection.js:398-424, 886-888)
SetPeer(st, index, address) ==
  IF st.ip[index] # address
  THEN [st EXCEPT !.ip[index] = address,
                  !.readyState[index] = CONNECTING,
                  !.timeout[index] = TRUE,
                  !.log = @ \o <<Did("terminate", index),
                                 Did("open", index)>>]
  ELSE st

\* const peer = publicPeers.shift(); if (peer !== undefined) setPeer(i, peer)
ShiftAndSetPeer(st, i) ==
  IF st.publicPeers = <<>>
  THEN st
  ELSE SetPeer([st EXCEPT !.publicPeers = Tail(@)], i, Head(st.publicPeers))

\* sockets.filter(({readyState}) => readyState === 1)[0]
FirstOpen(states) ==
  IF \E j \in Slots : states[j] = OPEN
  THEN CHOOSE j \in Slots : states[j] = OPEN /\ \A k \in Slots : states[k] = OPEN => j <= k
  ELSE -1

\* the state after a handler left `st`.  A socket openSocket created has no
\* request of the socket it replaces, and the callbacks waiting for
\* socket.open of a socket that closed send nothing (connection.js:319-323)
Becomes(st) ==
  /\ ip' = st.ip
  /\ readyState' = st.readyState
  /\ timeout' = st.timeout
  /\ publicPeers' = st.publicPeers
  /\ socketLog' = st.log
  /\ requestsBySocket' =
       [i \in Slots |->
          IF \E n \in 1 .. Len(st.log) : st.log[n] = Did("open", i)
          THEN NoRequests
          ELSE IF st.readyState[i] = CLOSED
          THEN [Quiet(requestsBySocket)[i] EXCEPT !.awaitingOpen = <<>>]
          ELSE Quiet(requestsBySocket)[i]]

Current(log) == Sockets(ip, readyState, timeout, publicPeers, log)

\* the frame of a socket step
SocketFrame ==
  /\ UNCHANGED <<latestComputerState, computerStateComparisonRightOffset,
                 computerStateResponsesByTimestamp, latestComputerStateRequestTimestamp,
                 sinceSynchronization, requestTimer, synchronizationTimer,
                 info, roundInfo, arrivals, compared>>
  /\ UNCHANGED <<pollState, transferStatusRequestsToResendByDigest, requestLoops>>
  /\ UNCHANGED <<ledgerVars, launchVars, engineVars>>

\* the public setPeer(index, ip)
setPeer(index, address) ==
  /\ Becomes(SetPeer(Current(<<Did("setPeer", index)>>), index, address))
  /\ SocketFrame

\* the connect timeout of openSocket (connection.js:416-418) fires
connectionTimeout(i) ==
  /\ timeout[i]
  /\ timeout' = [timeout EXCEPT ![i] = FALSE]
  /\ readyState' = [readyState EXCEPT ![i] = IF @ \in {CONNECTING, OPEN} THEN CLOSING ELSE @]
  /\ socketLog' = <<>>
  /\ requestsBySocket' = Quiet(requestsBySocket)
  /\ UNCHANGED <<ip, publicPeers>>
  /\ SocketFrame

\* socket.onerror (connection.js:838-847)
onerror(i) ==
  /\ readyState[i] \in {CONNECTING, OPEN}
  /\ readyState' = [readyState EXCEPT ![i] = CLOSING]
  /\ socketLog' = <<Did("error", i)>>
  /\ requestsBySocket' = Quiet(requestsBySocket)
  /\ UNCHANGED <<ip, timeout, publicPeers>>
  /\ SocketFrame

\* socket.onclose (connection.js:849-872), when the socket of slot i has
\* closed: after close(), on a failed connect or closed by the peer
onclose(i) ==
  /\ readyState[i] \in {CONNECTING, OPEN, CLOSING}
  /\ LET closed == [Current(<<Did("close", i)>>)
                     EXCEPT !.readyState[i] = CLOSED, !.timeout[i] = FALSE]
         swapped == ShiftAndSetPeer(closed, i)
         openSocket == FirstOpen(swapped.readyState)
     IN Becomes(IF swapped.publicPeers = <<>> /\ openSocket # -1
                THEN [swapped EXCEPT !.log =
                        @ \o <<Did("exchangePublicPeers", openSocket)>>]
                ELSE swapped)
  /\ SocketFrame

\* sockets.forEach of connection.js:825-832, from slot i on
RECURSIVE ReopenClosed(_, _)
ReopenClosed(st, i) ==
  IF i = NUMBER_OF_CONNECTIONS THEN st
  ELSE ReopenClosed(IF st.readyState[i] = CLOSED THEN ShiftAndSetPeer(st, i) ELSE st, i + 1)

\* socket.onmessage, case EXCHANGE_PUBLIC_PEERS (connection.js:816-832), for a
\* reply on socket i carrying the addresses `gossip`
onmessageExchangePublicPeers(i, gossip) ==
  /\ readyState[i] = OPEN
  /\ Len(publicPeers) + NUMBER_OF_PUBLIC_PEERS <= MaxQueue
  /\ Becomes(ReopenClosed([Current(<<>>) EXCEPT !.publicPeers = @ \o gossip], 0))
  /\ SocketFrame

\* what happens to the sockets while the embedder calls nothing
NextSocketEvents ==
  \/ \E i \in Slots : onopen(i)
  \/ \E i \in Slots : connectionTimeout(i)
  \/ \E i \in Slots : onerror(i)
  \/ \E i \in Slots : onclose(i)
  \/ \E i \in Slots, gossip \in [1 .. NUMBER_OF_PUBLIC_PEERS -> Addresses] :
       onmessageExchangePublicPeers(i, gossip)

NextSockets ==
  \/ NextSocketEvents
  \/ \E index \in Slots, address \in Addresses : setPeer(index, address)

SpecSockets == Init /\ [][NextSockets]_vars

\* a pending connect timeout fires, and a socket that is closing ends up
\* closed; peers are free never to answer
FairnessSockets ==
  \A i \in Slots :
    /\ WF_vars(connectionTimeout(i))
    /\ WF_vars(readyState[i] = CLOSING /\ onclose(i))

SpecSocketsFair == Init /\ [][NextSocketEvents]_vars /\ FairnessSockets

\* open(), close() and setPeer() called in any order, with the sockets
\* opening and closing and the routines running; setPeer is called with an
\* address that is not among the configured peers
NextLifecycle ==
  \/ open
  \/ close
  \/ \E index \in Slots : setPeer(index, NUMBER_OF_CONNECTIONS)
  \/ \E i \in Slots : terminated(i)
  \/ \E i \in Slots : onopen(i)
  \/ \E i \in Slots : oncloseEarlierSocket(i)
  \/ getComputerState
  \/ \E k \in 1 .. Len(routines) : getComputerStateRoutine(k)
  \/ computerStateSynchronizationRoutine
  \/ \E k \in 1 .. Len(routines) : laterSynchronizationRoutine(k)
  \/ Tick

SpecLifecycle == Init /\ [][NextLifecycle]_vars

(***************************************************************************)
(* client.js: calls and handlers, one action per stretch of code between   *)
(* two awaits that may yield to another call.  A batch takes effect (or    *)
(* fails) when it is issued; the code after `await ... .write()` runs in a *)
(* later step.                                                             *)
(***************************************************************************)
\* the slot a new call or handler invocation runs in
Free(t) == tasks[t] = NoTask /\ \A u \in Tasks : u < t => tasks[u] # NoTask

\* onEnd (client.js:480-484) at the end of the read stream of a fresh store
onEnd ==
  /\ ~AESCounter
  /\ AESCounter' = (counter = 0)
  /\ UNCHANGED <<counter, energy, hashesByIndex, hashes, database, listeners,
                 tasks, calls, broadcasts, receiptEvents>>
  /\ lastBatch' = "none"
  /\ lastError' = NoError
  /\ emitted' = <<>>
  /\ UNCHANGED <<connectionVars, launchVars>>

\* transfer with the counter taken before the checks
transferChecksAfterCounter(t, destination, amount) ==
  /\ Free(t)
  /\ calls < MaxCalls
  /\ calls' = calls + 1
  /\ lastError' = TransferError(destination, amount, energy)
  /\ emitted' = <<>>
  /\ IF lastError' # NoError
     THEN /\ counter < MaxCounter
          /\ counter' = counter + 1
          /\ UNCHANGED tasks
     ELSE /\ tasks' = [tasks EXCEPT ![t] =
                [NoTask EXCEPT !.op = "transfer", !.pc = "AESCounter",
                               !.hash = calls + 1, !.destination = destination,
                               !.amount = amount]]
          /\ UNCHANGED counter
  /\ lastBatch' = "none"
  /\ UNCHANGED <<energy, hashesByIndex, hashes, AESCounter, database,
                 listeners, broadcasts, receiptEvents>>
  /\ UNCHANGED <<connectionVars, launchVars>>

\* transfer(params) up to `await AESCounter` (client.js:572-586), with the
\* checks of transfer() (transfer.js:68-84) on the way
transfer(t, destination, amount) ==
  /\ Free(t)
  /\ calls < MaxCalls
  /\ calls' = calls + 1
  /\ lastError' = TransferError(destination, amount, energy)
  /\ emitted' = <<>>
  /\ IF lastError' # NoError
     THEN UNCHANGED tasks
     ELSE tasks' = [tasks EXCEPT ![t] =
                [NoTask EXCEPT !.op = "transfer", !.pc = "AESCounter",
                               !.hash = calls + 1, !.destination = destination,
                               !.amount = amount]]
  /\ lastBatch' = "none"
  /\ UNCHANGED <<counter, energy, hashesByIndex, hashes, AESCounter, database,
                 listeners, broadcasts, receiptEvents>>
  /\ UNCHANGED <<connectionVars, launchVars>>

\* client.js:587-589
transferAfterAESCounter(t) ==
  /\ tasks[t].op = "transfer" /\ tasks[t].pc = "AESCounter"
  /\ AESCounter
  /\ counter < MaxCounter
  /\ counter' = counter + 1
  /\ hashesByIndex' = MapSet(hashesByIndex, counter', tasks[t].hash)
  /\ tasks' = [tasks EXCEPT ![t] =
        [@ EXCEPT !.pc = "batch", !.counterValue = counter',
                  !.essence = databaseEssence(counter', energy, hashesByIndex')]]
  /\ UNCHANGED <<energy, hashes, AESCounter, database, listeners, calls,
                 broadcasts, receiptEvents>>
  /\ lastBatch' = "none"
  /\ lastError' = NoError
  /\ emitted' = <<>>
  /\ UNCHANGED <<connectionVars, launchVars>>

\* transferWrite with the fan-out moved in front of the batch
transferWriteAfterBroadcast(t, outcome) ==
  /\ tasks[t].op = "transfer" /\ tasks[t].pc = "batch"
  /\ broadcasts' = broadcasts \cup {tasks[t].hash}
  /\ IF outcome = "ok"
     THEN /\ database' =
               [database EXCEPT
                  !.counter = tasks[t].counterValue,
                  !.signature = Sign(tasks[t].essence),
                  !.records = MapSet(@, tasks[t].counterValue,
                                     Encrypt(tasks[t].counterValue,
                                             [tag |-> 0, hash |-> tasks[t].hash,
                                              receipt |-> NoSlabs]))]
          /\ tasks' = [tasks EXCEPT ![t] = [@ EXCEPT !.pc = "written", !.batch = outcome]]
          /\ lastBatch' = "none"
     ELSE /\ tasks' = [tasks EXCEPT ![t] = NoTask]
          /\ lastBatch' = "thrown"
          /\ UNCHANGED database
  /\ UNCHANGED <<counter, energy, hashesByIndex, hashes, AESCounter, listeners,
                 calls, receiptEvents>>
  /\ lastError' = NoError
  /\ emitted' = <<>>
  /\ UNCHANGED <<connectionVars, launchVars>>

\* client.js:590-613; a failed batch rejects the promise transfer() returned
transferWrite(t, outcome) ==
  /\ tasks[t].op = "transfer" /\ tasks[t].pc = "batch"
  /\ IF outcome = "ok"
     THEN /\ database' =
               [database EXCEPT
                  !.counter = tasks[t].counterValue,
                  !.signature = Sign(tasks[t].essence),
                  !.records = MapSet(@, tasks[t].counterValue,
                                     Encrypt(tasks[t].counterValue,
                                             [tag |-> 0, hash |-> tasks[t].hash,
                                              receipt |-> NoSlabs]))]
          /\ tasks' = [tasks EXCEPT ![t] = [@ EXCEPT !.pc = "written", !.batch = Awaited(outcome)]]
          /\ lastBatch' = "none"
     ELSE /\ tasks' = [tasks EXCEPT ![t] = NoTask]
          /\ lastBatch' = "thrown"
          /\ UNCHANGED database
  /\ UNCHANGED <<counter, energy, hashesByIndex, hashes, AESCounter, listeners,
                 calls, broadcasts, receiptEvents>>
  /\ lastError' = NoError
  /\ emitted' = <<>>
  /\ UNCHANGED <<connectionVars, launchVars>>

\* client.js:615-628
transferAfterWrite(t) ==
  /\ tasks[t].op = "transfer" /\ tasks[t].pc = "written"
  /\ hashes' = hashes \cup {tasks[t].hash}
  /\ broadcasts' = broadcasts \cup {tasks[t].hash}
  /\ listeners' = MapSet(listeners, tasks[t].hash,
                         [counter |-> tasks[t].counterValue,
                          destination |-> tasks[t].destination,
                          energy |-> tasks[t].amount,
                          receivedReceipt |-> FALSE])
  /\ tasks' = [tasks EXCEPT ![t] = NoTask]
  /\ lastBatch' = "ok"
  /\ UNCHANGED <<counter, energy, hashesByIndex, AESCounter, database, calls,
                 receiptEvents>>
  /\ lastError' = NoError
  /\ emitted' = <<Event("transfer", tasks[t].hash, tasks[t].amount)>>
  /\ UNCHANGED <<connectionVars, launchVars>>

\* setEnergy(value) up to `await crypto` (client.js:927-935)
setEnergy(t, value) ==
  /\ Free(t)
  /\ calls < MaxCalls
  /\ calls' = calls + 1
  /\ energy' = value
  /\ tasks' = [tasks EXCEPT ![t] =
        [NoTask EXCEPT !.op = "setEnergy", !.pc = "batch", !.energyCopy = energy,
                       !.newEnergy = value,
                       !.essence = databaseEssence(counter, value, hashesByIndex)]]
  /\ UNCHANGED <<counter, hashesByIndex, hashes, AESCounter, database, listeners,
                 broadcasts, receiptEvents>>
  /\ lastBatch' = "none"
  /\ lastError' = NoError
  /\ emitted' = <<>>
  /\ UNCHANGED <<connectionVars, launchVars>>

\* client.js:936-949: write() is not awaited, so only a synchronous throw
\* reaches the catch
setEnergyWrite(t, outcome) ==
  /\ tasks[t].op = "setEnergy" /\ tasks[t].pc = "batch"
  /\ database' = IF outcome = "ok"
                 THEN [database EXCEPT !.energy = tasks[t].newEnergy,
                                       !.signature = Sign(tasks[t].essence)]
                 ELSE database
  /\ energy' = IF outcome = "throw" THEN tasks[t].energyCopy ELSE energy
  /\ tasks' = [tasks EXCEPT ![t] = NoTask]
  /\ lastBatch' = IF outcome = "throw" THEN "caught"
                   ELSE IF outcome = "reject" THEN "rejected" ELSE "ok"
  /\ UNCHANGED <<counter, hashesByIndex, hashes, AESCounter, listeners, calls,
                 broadcasts, receiptEvents>>
  /\ lastError' = NoError
  /\ emitted' = IF outcome = "throw" THEN <<>>
                ELSE <<Event("energy", 0, tasks[t].newEnergy)>>
  /\ UNCHANGED <<connectionVars, launchVars>>

\* infoListener of processTransferStatus (client.js:162-176), resumed with the
\* response of connection.getTransferStatus(params.hash)
infoListener(t, h, slabs) ==
  /\ Free(t)
  /\ h \in DOMAIN listeners
  /\ ~listeners[h].receivedReceipt
  /\ LET response == StatusResponses[<<h, slabs>>]
     IN /\ response.resolved
        /\ IF response.hasReceipt
           THEN /\ listeners' = [listeners EXCEPT ![h].receivedReceipt = TRUE]
                /\ tasks' = [tasks EXCEPT ![t] =
                      [NoTask EXCEPT !.op = "processTransferStatus", !.pc = "AESCounter",
                                     !.hash = h, !.key = listeners[h].counter,
                                     !.destination = listeners[h].destination,
                                     !.amount = listeners[h].energy,
                                     !.receipt = Receipt(NoReceipt.transfer, TRUE, TRUE,
                                                         response.receipt)]]
           ELSE UNCHANGED <<listeners, tasks>>
  /\ UNCHANGED <<counter, energy, hashesByIndex, hashes, AESCounter, database, calls,
                 broadcasts, receiptEvents>>
  /\ lastBatch' = "none"
  /\ lastError' = NoError
  /\ emitted' = <<>>
  /\ UNCHANGED <<connectionVars, launchVars>>

\* client.js:178-182, up to `await id`
infoListenerAfterAESCounter(t) ==
  /\ tasks[t].op = "processTransferStatus" /\ tasks[t].pc = "AESCounter"
  /\ AESCounter
  /\ counter < MaxCounter
  /\ counter' = counter + 1
  /\ hashesByIndex' = MapSet(MapDelete(hashesByIndex, tasks[t].key), counter', tasks[t].hash)
  /\ tasks' = [tasks EXCEPT ![t] =
        [@ EXCEPT !.pc = "id", !.counterValue = counter', !.energyCopy = energy]]
  /\ UNCHANGED <<energy, hashes, AESCounter, database, listeners, calls,
                 broadcasts, receiptEvents>>
  /\ lastBatch' = "none"
  /\ lastError' = NoError
  /\ emitted' = <<>>
  /\ UNCHANGED <<connectionVars, launchVars>>

\* client.js:183-211
infoListenerAfterId(t) ==
  /\ tasks[t].op = "processTransferStatus" /\ tasks[t].pc = "id"
  /\ energy' = IF tasks[t].destination = "self" THEN energy
               ELSE Max(0, energy - tasks[t].amount)
  /\ tasks' = [tasks EXCEPT ![t] =
        [@ EXCEPT !.pc = "batch", !.newEnergy = energy',
                  !.essence = databaseEssence(counter, energy', hashesByIndex)]]
  /\ UNCHANGED <<counter, hashesByIndex, hashes, AESCounter, database, listeners, calls,
                 broadcasts, receiptEvents>>
  /\ lastBatch' = "none"
  /\ lastError' = NoError
  /\ emitted' = <<>>
  /\ UNCHANGED <<connectionVars, launchVars>>

\* client.js:213-231
infoListenerWrite(t, outcome) ==
  /\ tasks[t].op = "processTransferStatus" /\ tasks[t].pc = "batch"
  /\ database' =
       IF outcome = "ok"
       THEN [database EXCEPT
               !.counter = tasks[t].counterValue,
               !.energy = tasks[t].newEnergy,
               !.signature = Sign(tasks[t].essence),
               !.records = MapSet(MapDelete(@, tasks[t].key), tasks[t].counterValue,
                                  Encrypt(tasks[t].counterValue,
                                          [tag |-> 1, hash |-> tasks[t].hash,
                                           receipt |-> tasks[t].receipt.slabs]))]
       ELSE database
  /\ tasks' = [tasks EXCEPT ![t] = [@ EXCEPT !.pc = "written", !.batch = Awaited(outcome)]]
  /\ UNCHANGED <<counter, energy, hashesByIndex, hashes, AESCounter, listeners, calls,
                 broadcasts, receiptEvents>>
  /\ lastBatch' = "none"
  /\ lastError' = NoError
  /\ emitted' = <<>>
  /\ UNCHANGED <<connectionVars, launchVars>>

\* infoListenerAfterWrite with the two emits moved behind the try/catch
infoListenerAfterWriteEmitsAlways(t) ==
  /\ tasks[t].op = "processTransferStatus" /\ tasks[t].pc = "written"
  /\ IF tasks[t].batch = "ok"
     THEN /\ listeners' = MapDelete(listeners, tasks[t].hash)
          /\ receiptEvents' = receiptEvents \cup
               {[hash |-> tasks[t].hash, slabs |-> tasks[t].receipt.slabs]}
          /\ UNCHANGED energy
     ELSE /\ listeners' = [listeners EXCEPT ![tasks[t].hash].receivedReceipt = FALSE]
          /\ energy' = tasks[t].energyCopy
          /\ UNCHANGED receiptEvents
  /\ tasks' = [tasks EXCEPT ![t] = NoTask]
  /\ lastBatch' = tasks[t].batch
  /\ UNCHANGED <<counter, hashesByIndex, hashes, AESCounter, database, calls,
                 broadcasts>>
  /\ lastError' = NoError
  /\ emitted' = <<Event("energy", 0, energy), Event("receipt", tasks[t].hash, 0)>>
  /\ UNCHANGED <<connectionVars, launchVars>>

\* client.js:233-245
infoListenerAfterWrite(t) ==
  /\ tasks[t].op = "processTransferStatus" /\ tasks[t].pc = "written"
  /\ IF tasks[t].batch = "ok"
     THEN /\ listeners' = MapDelete(listeners, tasks[t].hash)
          /\ receiptEvents' = receiptEvents \cup
               {[hash |-> tasks[t].hash, slabs |-> tasks[t].receipt.slabs]}
          /\ UNCHANGED energy
     ELSE /\ listeners' = [listeners EXCEPT ![tasks[t].hash].receivedReceipt = FALSE]
          /\ energy' = tasks[t].energyCopy
          /\ UNCHANGED receiptEvents
  /\ tasks' = [tasks EXCEPT ![t] = NoTask]
  /\ lastBatch' = tasks[t].batch
  /\ UNCHANGED <<counter, hashesByIndex, hashes, AESCounter, database, calls,
                 broadcasts>>
  /\ lastError' = NoError
  /\ emitted' = IF tasks[t].batch = "ok"
                THEN <<Event("energy", 0, energy),
                       Event("receipt", tasks[t].hash, 0)>>
                ELSE <<>>
  /\ UNCHANGED <<connectionVars, launchVars>>

\* NewEnergy without the clamp at 0
NewEnergyUnclamped(x, currentEnergy) ==
  IF x.destination = x.source THEN currentEnergy
  ELSE IF x.destination = "self" THEN currentEnergy + x.energy
  ELSE IF x.source = "self" THEN currentEnergy - x.energy
  ELSE currentEnergy

\* newEnergy of importReceipt (client.js:637-647) for the transfer x
NewEnergy(x, currentEnergy) ==
  IF x.destination = x.source THEN currentEnergy
  ELSE IF x.destination = "self" THEN currentEnergy + x.energy
  ELSE IF x.source = "self" THEN Max(0, currentEnergy - x.energy)
  ELSE currentEnergy

\* importReceipt(receiptBase64) up to `await crypto` (client.js:631-649); a
\* call made before AESCounter is resolved waits at its first line
importReceipt(t, receipt) ==
  /\ Free(t)
  /\ calls < MaxCalls
  /\ AESCounter
  /\ calls' = calls + 1
  /\ LET x == receipt.transfer
     IN IF x.hash \in hashes
        THEN UNCHANGED tasks
        ELSE tasks' = [tasks EXCEPT ![t] =
                [NoTask EXCEPT !.op = "importReceipt", !.pc = "crypto",
                               !.hash = x.hash, !.receipt = receipt,
                               !.newEnergy = NewEnergy(x, energy)]]
  /\ lastBatch' = "none"
  /\ UNCHANGED <<counter, energy, hashesByIndex, hashes, AESCounter, database, listeners,
                 broadcasts, receiptEvents>>
  /\ lastError' = NoError
  /\ emitted' = <<>>
  /\ UNCHANGED <<connectionVars, launchVars>>

\* the checks of client.js:651-767 on a receipt
ReceiptAccepted(receipt) ==
  /\ receipt.transferSignature
  /\ receipt.computerState
  /\ Floor(Report(StatusesOf({s \in Slabs(receipt.slabs) : s.signature})), 2)
       >= QuorumThreshold

\* the receipts handed to importReceipt that pass these checks
AcceptedReceipts == {receipt \in ImportedReceipts : ReceiptAccepted(receipt)}

\* client.js:651-794
importReceiptAfterCrypto(t) ==
  /\ tasks[t].op = "importReceipt" /\ tasks[t].pc = "crypto"
  /\ IF tasks[t].receipt \in AcceptedReceipts
     THEN /\ counter < MaxCounter
          /\ counter' = counter + 1
          /\ hashesByIndex' = MapSet(hashesByIndex, counter', tasks[t].hash)
          /\ energy' = tasks[t].newEnergy
          /\ tasks' = [tasks EXCEPT ![t] =
                [@ EXCEPT !.pc = "batch", !.counterValue = counter', !.energyCopy = energy,
                          !.essence = databaseEssence(counter', energy', hashesByIndex')]]
          /\ lastBatch' = "none"
     ELSE /\ tasks' = [tasks EXCEPT ![t] = NoTask]
          /\ lastBatch' = "none"
          /\ UNCHANGED <<counter, energy, hashesByIndex>>
  /\ UNCHANGED <<hashes, AESCounter, database, listeners, calls,
                 broadcasts, receiptEvents>>
  /\ lastError' = NoError
  /\ emitted' = <<>>
  /\ UNCHANGED <<connectionVars, launchVars>>

\* client.js:796-813
importReceiptWrite(t, outcome) ==
  /\ tasks[t].op = "importReceipt" /\ tasks[t].pc = "batch"
  /\ database' =
       IF outcome = "ok"
       THEN [database EXCEPT
               !.counter = tasks[t].counterValue,
               !.energy = tasks[t].newEnergy,
               !.signature = Sign(tasks[t].essence),
               !.records = MapSet(@, tasks[t].counterValue,
                                  Encrypt(tasks[t].counterValue,
                                          [tag |-> 1, hash |-> tasks[t].hash,
                                           receipt |-> tasks[t].receipt.slabs]))]
       ELSE database
  /\ tasks' = [tasks EXCEPT ![t] = [@ EXCEPT !.pc = "written", !.batch = Awaited(outcome)]]
  /\ UNCHANGED <<counter, energy, hashesByIndex, hashes, AESCounter, listeners, calls,
                 broadcasts, receiptEvents>>
  /\ lastBatch' = "none"
  /\ lastError' = NoError
  /\ emitted' = <<>>
  /\ UNCHANGED <<connectionVars, launchVars>>

\* client.js:815-833
importReceiptAfterWrite(t) ==
  /\ tasks[t].op = "importReceipt" /\ tasks[t].pc = "written"
  /\ IF tasks[t].batch = "ok"
     THEN /\ receiptEvents' = receiptEvents \cup
               {[hash |-> tasks[t].hash, slabs |-> tasks[t].receipt.slabs]}
          /\ UNCHANGED energy
     ELSE /\ energy' = tasks[t].energyCopy
          /\ UNCHANGED receiptEvents
  /\ hashes' = hashes \cup {tasks[t].hash}
  /\ tasks' = [tasks EXCEPT ![t] = NoTask]
  /\ lastBatch' = tasks[t].batch
  /\ UNCHANGED <<counter, hashesByIndex, AESCounter, database, listeners, calls,
                 broadcasts>>
  /\ lastError' = NoError
  /\ emitted' = IF tasks[t].batch = "ok"
                THEN <<Event("energy", 0, energy),
                       Event("transfer", tasks[t].hash, tasks[t].receipt.transfer.energy),
                       Event("transferStatus", tasks[t].hash, 0),
                       Event("receipt", tasks[t].hash, 0)>>
                ELSE <<>>
  /\ UNCHANGED <<connectionVars, launchVars>>

\* the steps of the calls and handlers running in the slots `slots`
LedgerStep(slots) ==
  \/ onEnd
  \/ \E t \in slots, destination \in Destinations, amount \in {0, MaxEnergy} :
       transfer(t, destination, amount)
  \/ \E t \in slots : transferAfterAESCounter(t)
  \/ \E t \in slots, outcome \in BatchOutcomes : transferWrite(t, outcome)
  \/ \E t \in slots : transferAfterWrite(t)
  \/ \E t \in slots, value \in {0, MaxEnergy} : setEnergy(t, value)
  \/ \E t \in slots, outcome \in BatchOutcomes : setEnergyWrite(t, outcome)
  \/ \E t \in slots, h \in DOMAIN listeners :
       \E slabs \in PolledSlabs(h) : infoListener(t, h, slabs)
  \/ \E t \in slots : infoListenerAfterAESCounter(t)
  \/ \E t \in slots : infoListenerAfterId(t)
  \/ \E t \in slots, outcome \in BatchOutcomes : infoListenerWrite(t, outcome)
  \/ \E t \in slots : infoListenerAfterWrite(t)
  \/ \E t \in slots, receipt \in Receipts : importReceipt(t, receipt)
  \/ \E t \in slots : importReceiptAfterCrypto(t)
  \/ \E t \in slots, outcome \in BatchOutcomes : importReceiptWrite(t, outcome)
  \/ \E t \in slots : importReceiptAfterWrite(t)

NextLedger == LedgerStep(Tasks)

SpecLedger == Init /\ [][NextLedger]_vars

\* every call is awaited before the next one is made
NextSequential == LedgerStep({1})

SpecSequential == Init /\ [][NextSequential]_vars

\* setEnergy and importReceipt calls, each awaited before the next is made,
\* over the receipts of all four source/destination cases
NextImport ==
  \/ onEnd
  \/ \E value \in {0, MaxEnergy} : setEnergy(1, value)
  \/ \E outcome \in BatchOutcomes : setEnergyWrite(1, outcome)
  \/ \E receipt \in ImportedReceipts : importReceipt(1, receipt)
  \/ importReceiptAfterCrypto(1)
  \/ \E outcome \in BatchOutcomes : importReceiptWrite(1, outcome)
  \/ importReceiptAfterWrite(1)

SpecImport == Init /\ [][NextImport]_vars

(***************************************************************************)
(* client(): the replay of an existing store at launch (client.js:255-540). *)
(* The read stream delivers every key in key order and then 'end'.  onData  *)
(* and onEnd are async functions: each stops at `await crypto`, and onData  *)
(* once more at `await transferObject(...)`.  Continuations run as          *)
(* microtasks, in the order in which they became ready and before the       *)
(* stream delivers its next event; when the crypto promise resolves is up   *)
(* to the environment.                                                      *)
(***************************************************************************)
\* timestamp() at the end of the replay (client.js:511), in seconds
Now == 61

\* client.js:514
RebroadcastAfter == 60

\* the timestamps of stored transfers: 59, 60 and 61 seconds before Now
Timestamps == {Now - RebroadcastAfter - 1 + d : d \in 0 .. 2}

\* a decrypted record: the tag byte, the transfer (hash, destination, energy,
\* timestamp), whether its signature verifies under the key the code checks
\* it with, and for tag 1 whether the admin signature of the computer state
\* in the receipt verifies
StoredTransfer(tag, hash, signature, computerState, ts) ==
  [tag |-> tag, hash |-> hash, receipt |-> NoSlabs, signature |-> signature,
   computerState |-> computerState, destination |-> "other", energy |-> MIN_ENERGY_AMOUNT,
   timestamp |-> ts]

\* the records a store may hold under the numeric key k: what transfer() and
\* the processed rewrite write, and the same records damaged on disk
StoredTransfers(k) ==
  {StoredTransfer(0, k, signature, TRUE, ts) : signature \in BOOLEAN, ts \in Timestamps}
    \cup {StoredTransfer(1, k, TRUE, TRUE, ts) : ts \in Timestamps}
    \cup {StoredTransfer(1, k, FALSE, TRUE, Now - RebroadcastAfter),
          StoredTransfer(1, k, TRUE, FALSE, Now - RebroadcastAfter)}

\* the largest numeric key of the map, 0 for an empty one
RECURSIVE LargestKey(_)
LargestKey(map) ==
  IF DOMAIN map = {} THEN 0
  ELSE LET k == CHOOSE k \in DOMAIN map : TRUE
       IN Max(k, LargestKey(MapDelete(map, k)))

\* the store the batches of client.js:590-611, 213-228 and 936-943 leave: the
\* records, the counter of the last one, the energy, and either the signature
\* of the essence of exactly this content or the signature of an empty ledger
LaunchStore(records, energyValue, signed) ==
  LET unsigned ==
        [counter |-> IF DOMAIN records = {} THEN Absent ELSE LargestKey(records),
         energy |-> energyValue,
         signature |-> NoSignature,
         records |-> [k \in DOMAIN records |-> Encrypt(k, records[k])]]
  IN [unsigned EXCEPT !.signature =
        IF signed THEN Sign(ReplayedEssence(unsigned))
        ELSE Sign(databaseEssence(0, 0, <<>>))]

RecordMaps ==
  UNION {[keys -> UNION {StoredTransfers(k) : k \in keys}] : keys \in SUBSET (1 .. MaxRecords)}

\* the stores a client is launched on
LaunchStores ==
  {EmptyDatabase}
    \cup {LaunchStore(records, energyValue, signed) :
            records \in {m \in RecordMaps : \A k \in DOMAIN m : m[k].hash = k},
            energyValue \in {Absent, MaxEnergy}, signed \in BOOLEAN}

\* one event of the read stream
Data(name, key) == [name |-> name, key |-> key]

\* createReadStream (client.js:535-540): the keys in the order of the store
\* (numeric keys below 10 sort as numbers and before the named keys), then
\* 'end'
StreamOf(db) ==
  [i \in 1 .. Len(SelectSeq([k \in 1 .. MaxRecords |-> k], LAMBDA k : k \in DOMAIN db.records)) |->
     Data("record", SelectSeq([k \in 1 .. MaxRecords |-> k],
                              LAMBDA k : k \in DOMAIN db.records)[i])]
    \o (IF db.counter = Absent THEN <<>> ELSE <<Data("counter", 0)>>)
    \o (IF db.energy = Absent THEN <<>> ELSE <<Data("energy", 0)>>)
    \o (IF db.signature = NoSignature THEN <<>> ELSE <<Data("signature", 0)>>)
    \o <<Data("end", 0)>>

\* a continuation: the handler, the await it resumes from, the key of its record
Job(fn, at, key) == [fn |-> fn, at |-> at, key |-> key]

\* what the read streams deliver: the store as it was when they were created.
\* Where calls are made while the stream of the constructor runs, that store
\* is kept in `replay`; launch() is followed where it is called before the
\* first write.
Replayed == IF replay = NoReplay THEN database ELSE replay.snapshot

InitLaunch ==
  /\ InitQuorum
  /\ InitSockets
  /\ InitPolls
  /\ InitMemory
  /\ database \in LaunchStores
  /\ stream = StreamOf(database)

\* what the last step of another handler leaves in the observation variables
LaunchFrame ==
  /\ UNCHANGED <<tasks, calls, receiptEvents, database, replay>>
  /\ lastBatch' = "none"
  /\ lastError' = NoError
  /\ UNCHANGED connectionVars

\* `await crypto`: the continuation runs as a microtask once crypto is resolved
AwaitCrypto(job) ==
  IF crypto.resolved
  THEN /\ microtasks' = Append(microtasks, job)
       /\ UNCHANGED crypto
  ELSE /\ crypto' = [crypto EXCEPT !.reactions = Append(@, job)]
       /\ UNCHANGED microtasks

\* the crypto promise resolves: its reactions become microtasks, in order
cryptoResolves ==
  /\ ~crypto.resolved
  /\ crypto' = [resolved |-> TRUE, reactions |-> <<>>]
  /\ microtasks' = microtasks \o crypto.reactions
  /\ emitted' = <<>>
  /\ UNCHANGED <<counter, energy, hashesByIndex, hashes, AESCounter, listeners, broadcasts,
                 stream, databaseSignature, latestUnprocessedTransaction,
                 transfers, transferStatuses, receipts>>
  /\ LaunchFrame

\* onData(data) up to its first await (client.js:255-267)
onData ==
  /\ microtasks = <<>>
  /\ stream # <<>>
  /\ Head(stream).name # "end"
  /\ stream' = Tail(stream)
  /\ LET data == Head(stream)
     IN /\ counter' = IF data.name = "counter" THEN Replayed.counter ELSE counter
        /\ energy' = IF data.name = "energy" THEN Replayed.energy ELSE energy
        /\ databaseSignature' =
             IF data.name = "signature" THEN Replayed.signature ELSE databaseSignature
        /\ IF data.name = "record"
           THEN AwaitCrypto(Job("onData", "crypto", data.key))
           ELSE UNCHANGED <<crypto, microtasks>>
  /\ emitted' = <<>>
  /\ UNCHANGED <<hashesByIndex, hashes, AESCounter, listeners, broadcasts,
                 latestUnprocessedTransaction, transfers, transferStatuses, receipts>>
  /\ LaunchFrame

\* whether onData goes on with the record after its signature checks: the
\* transfer signature (client.js:282-288, 323-330) and, for tag 1, the admin
\* signature of the computer state (client.js:341-347)
RecordVerifies(plain) ==
  /\ plain.tag \in {0, 1}
  /\ plain.signature
  /\ plain.tag = 1 => plain.computerState

\* onData from `await crypto` to `await transferObject(...)` (client.js:267-293,
\* 315-450); a record that fails a check is logged with console.error
onDataAfterCrypto ==
  /\ microtasks # <<>>
  /\ Head(microtasks).fn = "onData" /\ Head(microtasks).at = "crypto"
  /\ LET key == Head(microtasks).key
         plain == Decrypt(key, Replayed.records[key])
     IN IF RecordVerifies(plain)
        THEN /\ hashesByIndex' = MapSet(hashesByIndex, key, plain.hash)
             /\ microtasks' = Append(Tail(microtasks), Job("onData", "transferObject", key))
        ELSE /\ microtasks' = Tail(microtasks)
             /\ UNCHANGED hashesByIndex
  /\ emitted' = <<>>
  /\ UNCHANGED <<counter, energy, hashes, AESCounter, listeners, broadcasts,
                 stream, crypto, databaseSignature, latestUnprocessedTransaction,
                 transfers, transferStatuses, receipts>>
  /\ LaunchFrame

\* onData after `await transferObject(...)` (client.js:293-309, 450-467)
onDataAfterTransferObject ==
  /\ microtasks # <<>>
  /\ Head(microtasks).fn = "onData" /\ Head(microtasks).at = "transferObject"
  /\ microtasks' = Tail(microtasks)
  /\ LET key == Head(microtasks).key
         plain == Decrypt(key, Replayed.records[key])
     IN /\ transfers' = Append(transfers, plain)
        /\ hashes' = hashes \cup {plain.hash}
        /\ IF plain.tag = 0
           THEN /\ latestUnprocessedTransaction' =
                     IF latestUnprocessedTransaction.index < key
                     THEN [index |-> key, hash |-> plain.hash, timestamp |-> plain.timestamp]
                     ELSE latestUnprocessedTransaction
                /\ listeners' = MapSet(listeners, plain.hash,
                                       [counter |-> key,
                                        destination |-> plain.destination,
                                        energy |-> plain.energy,
                                        receivedReceipt |-> FALSE])
                /\ UNCHANGED <<transferStatuses, receipts>>
           ELSE /\ transferStatuses' = Append(transferStatuses, plain.hash)
                /\ receipts' = Append(receipts, plain.hash)
                /\ UNCHANGED <<latestUnprocessedTransaction, listeners>>
  /\ emitted' = <<>>
  /\ UNCHANGED <<counter, energy, hashesByIndex, AESCounter, broadcasts,
                 stream, crypto, databaseSignature>>
  /\ LaunchFrame

\* onEnd up to `await crypto` (client.js:480-486)
onEndOfStream ==
  /\ microtasks = <<>>
  /\ stream # <<>>
  /\ Head(stream).name = "end"
  /\ stream' = Tail(stream)
  /\ AESCounter' = (AESCounter \/ counter = 0)
  /\ IF DOMAIN hashesByIndex # {} \/ energy > 0 \/ counter > 0
     THEN AwaitCrypto(Job("onEnd", "crypto", 0))
     ELSE UNCHANGED <<crypto, microtasks>>
  /\ emitted' = <<>>
  /\ UNCHANGED <<counter, energy, hashesByIndex, hashes, listeners, broadcasts,
                 databaseSignature, latestUnprocessedTransaction,
                 transfers, transferStatuses, receipts>>
  /\ LaunchFrame

\* the first loop over `transfers` (client.js:497-505): a transfer with the
\* destination, energy and timestamp of an earlier one is deleted
WithoutDuplicates(list) ==
  SelectSeq([i \in 1 .. Len(list) |-> [at |-> i, transfer |-> list[i]]],
            LAMBDA x : ~\E j \in 1 .. (x.at - 1) :
                          /\ list[j].destination = x.transfer.destination
                          /\ list[j].energy = x.transfer.energy
                          /\ list[j].timestamp = x.transfer.timestamp)

\* the check of client.js:487-492
EssenceVerifies ==
  Verify("self", databaseEssence(counter, energy, hashesByIndex), databaseSignature)

\* whether client.js:510-515 finds the latest unprocessed transfer due
RebroadcastDue ==
  /\ latestUnprocessedTransaction.index > -1
  /\ Now - latestUnprocessedTransaction.timestamp >= RebroadcastAfter

\* onEnd after `await crypto` (client.js:486-531); a failed verification is
\* logged with console.log
onEndAfterCrypto ==
  /\ microtasks # <<>>
  /\ Head(microtasks).fn = "onEnd"
  /\ microtasks' = Tail(microtasks)
  /\ IF EssenceVerifies
     THEN LET kept == WithoutDuplicates(transfers)
          IN /\ AESCounter' = TRUE
             /\ transfers' = [i \in 1 .. Len(kept) |-> kept[i].transfer]
             /\ broadcasts' = IF RebroadcastDue
                              THEN broadcasts \cup {latestUnprocessedTransaction.hash}
                              ELSE broadcasts
             /\ latestUnprocessedTransaction' =
                  IF RebroadcastDue THEN NoUnprocessedTransaction
                  ELSE latestUnprocessedTransaction
             /\ emitted' =
                  <<Event("energy", 0, energy)>>
                    \o [i \in 1 .. Len(kept) |->
                          Event("transfer", kept[i].transfer.hash, kept[i].transfer.energy)]
                    \o [i \in 1 .. Len(transferStatuses) |->
                          Event("transferStatus", transferStatuses[i], 0)]
                    \o [i \in 1 .. Len(receipts) |-> Event("receipt", receipts[i], 0)]
     ELSE /\ emitted' = <<>>
          /\ UNCHANGED <<AESCounter, transfers, broadcasts, latestUnprocessedTransaction>>
  /\ UNCHANGED <<counter, energy, hashesByIndex, hashes, listeners,
                 stream, crypto, databaseSignature, transferStatuses, receipts>>
  /\ LaunchFrame

NextLaunch ==
  \/ cryptoResolves
  \/ onData
  \/ onDataAfterCrypto
  \/ onDataAfterTransferObject
  \/ onEndOfStream
  \/ onEndAfterCrypto

SpecLaunch == InitLaunch /\ [][NextLaunch]_vars

(***************************************************************************)
(* client.js: calls made by the embedder while the store is replayed.      *)
(* transfer() waits for AESCounter (client.js:586); setEnergy() waits for  *)
(* crypto and the database handle only (client.js:927-943).                *)
(***************************************************************************)
\* the stores with at most the record of key 1
EarlyStores == {db \in LaunchStores : DOMAIN db.records \subseteq {1}}

InitEarlyCalls ==
  /\ InitQuorum
  /\ InitSockets
  /\ InitPolls
  /\ InitClient
  /\ database \in EarlyStores
  /\ stream = StreamOf(database)
  /\ replay = [launched |-> FALSE, events |-> <<>>, snapshot |-> database]

NextEarlyCalls ==
  \/ NextLaunch
  \/ transfer(1, "other", MaxEnergy)
  \/ transferAfterAESCounter(1)
  \/ \E outcome \in BatchOutcomes : transferWrite(1, outcome)
  \/ transferAfterWrite(1)
  \/ \E value \in {0, MaxEnergy} : setEnergy(1, value)
  \/ \E outcome \in BatchOutcomes : setEnergyWrite(1, outcome)

SpecEarlyCalls == InitEarlyCalls /\ [][NextEarlyCalls]_vars

(***************************************************************************)
(* launch() on a client whose constructor already started a read stream    *)
(* (client.js:535-541, 915-925).  launch() replaces the AESCounter promise  *)
(* and its resolver, reopens the connection and starts a second read stream *)
(* over the same store; the first stream is not destroyed and its onEnd     *)
(* calls the resolver that is current by then.                              *)
(***************************************************************************)
\* a store as earlier runs of the client left it: one transfer under key 1,
\* not yet processed or processed, its hash different from the hashes of the
\* transfers made in this run, and a valid essence signature
RelaunchStores ==
  {LaunchStore([k \in {1} |-> StoredTransfer(tag, MaxCalls + k, TRUE, TRUE,
                                              Now - RebroadcastAfter + 1)],
               MaxEnergy, TRUE) : tag \in {0, 1}}

InitRelaunch ==
  /\ InitQuorum
  /\ InitSockets
  /\ InitPolls
  /\ InitMemory
  /\ database \in RelaunchStores
  /\ stream = StreamOf(database)

\* what a step of the second read stream leaves alone
ReplayFrame ==
  /\ UNCHANGED <<tasks, calls, receiptEvents, database, stream>>
  /\ lastBatch' = "none"
  /\ lastError' = NoError
  /\ UNCHANGED connectionVars

\* launch() (client.js:915-925), called by the embedder between two events,
\* before this run has made a call or processed a receipt; the read stream
\* delivers the store as it is now
launch ==
  /\ microtasks = <<>>
  /\ calls = 0
  /\ receiptEvents = {}
  /\ \A t \in Tasks : tasks[t] = NoTask
  /\ AESCounter' = FALSE
  /\ OpenSockets
  /\ replay' = [launched |-> TRUE, events |-> StreamOf(database), snapshot |-> database]
  /\ UNCHANGED <<counter, energy, hashesByIndex, hashes, database, listeners, tasks, calls,
                 broadcasts, receiptEvents>>
  /\ lastBatch' = "none"
  /\ lastError' = NoError
  /\ emitted' = <<>>
  /\ UNCHANGED <<stream, crypto, microtasks, databaseSignature, latestUnprocessedTransaction,
                 transfers, transferStatuses, receipts, pollVars>>

\* onData (client.js:255-267) for an event of the second read stream
onDataAfterLaunch ==
  /\ microtasks = <<>>
  /\ replay.events # <<>>
  /\ Head(replay.events).name # "end"
  /\ replay' = [replay EXCEPT !.events = Tail(@)]
  /\ LET data == Head(replay.events)
     IN /\ counter' = IF data.name = "counter" THEN replay.snapshot.counter ELSE counter
        /\ energy' = IF data.name = "energy" THEN replay.snapshot.energy ELSE energy
        /\ databaseSignature' =
             IF data.name = "signature" THEN replay.snapshot.signature ELSE databaseSignature
        /\ IF data.name = "record"
           THEN AwaitCrypto(Job("onData", "crypto", data.key))
           ELSE UNCHANGED <<crypto, microtasks>>
  /\ emitted' = <<>>
  /\ UNCHANGED <<hashesByIndex, hashes, AESCounter, listeners, broadcasts,
                 latestUnprocessedTransaction, transfers, transferStatuses, receipts>>
  /\ ReplayFrame

\* onEnd up to `await crypto` (client.js:480-486) at the end of the second
\* read stream
onEndAfterLaunch ==
  /\ microtasks = <<>>
  /\ replay.events # <<>>
  /\ Head(replay.events).name = "end"
  /\ replay' = [replay EXCEPT !.events = Tail(@)]
  /\ AESCounter' = (AESCounter \/ counter = 0)
  /\ IF DOMAIN hashesByIndex # {} \/ energy > 0 \/ counter > 0
     THEN AwaitCrypto(Job("onEnd", "crypto", 0))
     ELSE UNCHANGED <<crypto, microtasks>>
  /\ emitted' = <<>>
  /\ UNCHANGED <<counter, energy, hashesByIndex, hashes, listeners, broadcasts,
                 databaseSignature, latestUnprocessedTransaction,
                 transfers, transferStatuses, receipts>>
  /\ ReplayFrame

\* the two replays and the transfers of this run
NextRelaunch ==
  \/ NextLaunch
  \/ launch
  \/ onDataAfterLaunch
  \/ onEndAfterLaunch
  \/ \E t \in Tasks : transfer(t, "other", MaxEnergy)
  \/ \E t \in Tasks : transferAfterAESCounter(t)
  \/ \E t \in Tasks, outcome \in BatchOutcomes : transferWrite(t, outcome)
  \/ \E t \in Tasks : transferAfterWrite(t)

SpecRelaunch == InitRelaunch /\ [][NextRelaunch]_vars

\* a receipt importReceipt accepts, of a transfer to this identity
IncomingReceipt ==
  Receipt(IncomingTransfer, TRUE, TRUE,
          SlabRun(QuorumThreshold, IncomingTransfer.hash, TRUE, 2))

\* the replay of the constructor, then status responses for the replayed
\* transfer and importReceipt calls, suspended at their awaits in any order
NextReceipts ==
  \/ NextLaunch
  \/ \E t \in Tasks, h \in DOMAIN listeners :
       \E slabs \in PolledSlabs(h) : infoListener(t, h, slabs)
  \/ \E t \in Tasks : infoListenerAfterAESCounter(t)
  \/ \E t \in Tasks : infoListenerAfterId(t)
  \/ \E t \in Tasks, outcome \in BatchOutcomes : infoListenerWrite(t, outcome)
  \/ \E t \in Tasks : infoListenerAfterWrite(t)
  \/ \E t \in Tasks : importReceipt(t, IncomingReceipt)
  \/ \E t \in Tasks : importReceiptAfterCrypto(t)
  \/ \E t \in Tasks, outcome \in BatchOutcomes : importReceiptWrite(t, outcome)
  \/ \E t \in Tasks : importReceiptAfterWrite(t)

SpecReceipts == InitRelaunch /\ [][NextReceipts]_vars

\* the two replays and the status responses for the replayed transfer.  Each
\* replay of an unprocessed record calls processTransferStatus, which adds an
\* infoListener with a receivedReceipt flag of its own (client.js:159-160,
\* 250-251); `listeners` holds the listener registered last for a hash, so a
\* run of this specification is a run of the code in which the listener
\* registered before it answers no further status response.
NextRelaunchStatus ==
  \/ NextLaunch
  \/ launch
  \/ onDataAfterLaunch
  \/ onEndAfterLaunch
  \/ \E t \in Tasks, h \in DOMAIN listeners :
       \E slabs \in PolledSlabs(h) : infoListener(t, h, slabs)
  \/ \E t \in Tasks : infoListenerAfterAESCounter(t)
  \/ \E t \in Tasks : infoListenerAfterId(t)
  \/ \E t \in Tasks, outcome \in BatchOutcomes : infoListenerWrite(t, outcome)
  \/ \E t \in Tasks : infoListenerAfterWrite(t)

SpecRelaunchStatus == InitRelaunch /\ [][NextRelaunchStatus]_vars

(***************************************************************************)
(* connection.js: transfer-status polls.  getTransferStatus registers the  *)
(* state of a poll under the digest of the transfer; the                   *)
(* GET_TRANSFER_STATUS branch of socket.onmessage checks every slab of a   *)
(* frame against that state, tallies the votes and concludes the poll.     *)
(***************************************************************************)
\* number of getTransferStatus calls explored
MaxPolls == 2
\* number of slabs one frame holds
MaxSlabs == 2

\* the digest getTransferStatus is called with, and another one
PolledDigest == 1
OtherDigest == 2

\* the epoch the admin payloads of the model are issued in
PayloadEpoch == 1

\* latestComputerState.epoch as the computer-state handler decoded it
\* (connection.js:554-557)
Epoch(computerState) == IF computerState.bytes = NoResponse THEN 0 ELSE PayloadEpoch

\* latestComputerState.computorPublicKeys (connection.js:564-576)
computorPublicKeys(computerState) == [c \in Computors |-> <<"computor", c>>]

\* the state of the connection once the three sockets are open and each has
\* answered the first request with payload t: status 3, snapshot t published
Synchronized(t) ==
  LET response == [computorIndex |-> NUMBER_OF_COMPUTORS, tick |-> t,
                   signature |-> AdminSignature(NUMBER_OF_COMPUTORS, t)]
  IN /\ readyState = [i \in Slots |-> OPEN]
     /\ latestComputerState = [status |-> NUMBER_OF_CONNECTIONS, tick |-> t, bytes |-> response]
     /\ computerStateComparisonRightOffset = NUMBER_OF_CONNECTIONS
     /\ latestComputerStateRequestTimestamp = 1
     /\ computerStateResponsesByTimestamp = [ts \in {1} |-> [i \in Slots |-> response]]
     /\ sinceSynchronization = 0
     /\ requestTimer = computerStateSynchronizationTimeoutDuration
     /\ synchronizationTimer = DesyncAfter
     /\ info = EmitInfo(NUMBER_OF_CONNECTIONS)
     /\ roundInfo = <<1, 2, 3>>
     /\ arrivals = [i \in Slots |-> [accepted |-> 1, invalid |-> 0, stale |-> 0]]
     /\ compared = [p \in SlotPairs |-> IF p[1] = 0 THEN 1 ELSE 0]
     /\ ip = [i \in Slots |-> peers[i]]
     /\ timeout = [i \in Slots |-> FALSE]
     /\ publicPeers = <<>>
     /\ socketLog = <<>>
     /\ earlier = [i \in Slots |-> 0]
     /\ routines = <<>>
     /\ handle = 0

\* a connection right after construction, or synchronized on one of the
\* payloads; the client has not been used
InitPoll ==
  /\ \/ InitQuorum /\ InitSockets
     \/ \E t \in 1 .. MaxPayload : Synchronized(t)
  /\ InitPolls
  /\ InitLedger

\* timestamp() (unnamed/part_000): a value no earlier call returned.  The first
\* getComputerState took 1; no other request is made while polls are explored
Timestamp(n) == latestComputerStateRequestTimestamp + n

\* the region of a slab its computor signs (TRANSFER_STATUS_DIGEST_OFFSET up
\* to TRANSFER_STATUS_SIGNATURE_OFFSET), hashed with byte 0 XORed with 3
\* (connection.js:637-647)
SlabDigest(digest, status, computorIndex, epoch, tick) ==
  [flag |-> 3, digest |-> digest, status |-> status, computorIndex |-> computorIndex,
   epoch |-> epoch, tick |-> tick]

\* TRANSFER_STATUS_STATUS_LENGTH (connection.js:79): two bits per computor,
\* the number of bytes the loop of connection.js:691 visits
TRANSFER_STATUS_STATUS_LENGTH == (NUMBER_OF_COMPUTORS * 2 + 7) \div 8

\* a slab of TRANSFER_STATUS_LENGTH bytes: the header with the echoed
\* timestamp, the signed region with the status bytes and the signature of
\* computor `signer`
StatusSlab(timestamp, digest, status, computorIndex, epoch, tick, signer) ==
  [timestamp |-> timestamp, digest |-> digest, status |-> status,
   computorIndex |-> computorIndex, epoch |-> epoch, tick |-> tick,
   signature |-> [publicKey |-> <<"computor", signer>>,
                  message |-> SlabDigest(digest, status, computorIndex, epoch, tick)]]

\* the status bytes that hold the 2-bit pattern `bits` for every computor
UniformStatus(bits) ==
  [i \in 0 .. (TRANSFER_STATUS_STATUS_LENGTH - 1) |-> bits * (64 + 16 + 4 + 1)]

\* a slab whose reporter gives every computor the vote `bits`
Slab(timestamp, digest, bits, computorIndex, epoch, tick, signer) ==
  StatusSlab(timestamp, digest, UniformStatus(bits), computorIndex, epoch, tick, signer)

\* the slabs peers send: for every computor and every vote a slab echoing the first poll, signed by the computor for tick 1 of the epoch;
\* the same with processed votes echoing the second poll; and slabs of
\* computor 0 with processed votes that are of another epoch, of ticks 2 and
\* 3, signed by another computor, and about another digest
StatusSlabs ==
  {Slab(Timestamp(1), PolledDigest, bits, c, PayloadEpoch, 1, c) :
     bits \in 0 .. 2, c \in Computors}
    \cup {Slab(Timestamp(2), PolledDigest, 2, c, PayloadEpoch, 1, c) : c \in Computors}
    \cup {Slab(Timestamp(1), PolledDigest, 2, 0, PayloadEpoch + 1, 1, 0),
          Slab(Timestamp(1), PolledDigest, 2, 0, PayloadEpoch, 2, 0),
          Slab(Timestamp(1), PolledDigest, 2, 0, PayloadEpoch, 3, 0),
          Slab(Timestamp(1), PolledDigest, 2, 0, PayloadEpoch, 1, 1),
          Slab(Timestamp(1), OtherDigest, 2, 0, PayloadEpoch, 1, 0)}

\* frames of one to MaxSlabs slabs, the slabs of a frame being those of
\* consecutive computors
StatusFrames ==
  {frame \in UNION {[1 .. n -> StatusSlabs] : n \in 1 .. MaxSlabs} :
     \A k \in 1 .. (Len(frame) - 1) :
        frame[k + 1].computorIndex = frame[k].computorIndex + 1}

\* (byte >> n) & 0x0001
BitAt(byte, n) == (byte \div (2 ^ n)) % 2

\* the inner loop body of connection.js:693-720 for the byte `byte` and the
\* loop variable j in {0, 2, 4, 6}: 01 is seen, 10 is processed, anything
\* else leaves transferStatus at 0
DecodeVoteTakesReserved(byte, j) ==
  IF BitAt(byte, 8 - (j + 1)) = 0
  THEN IF BitAt(byte, 8 - (j + 2)) = 1 THEN 1 ELSE 0
  ELSE 2

DecodeVote(byte, j) ==
  IF BitAt(byte, 8 - (j + 1)) = 0
  THEN IF BitAt(byte, 8 - (j + 2)) = 1 THEN 1 ELSE 0
  ELSE IF BitAt(byte, 8 - (j + 2)) = 0 THEN 2 ELSE 0

\* state.statuses[computorIndex] after the loops of connection.js:691-721:
\* entry i * 4 + j / 2 is the vote decoded from byte i at loop variable j
DecodeStatus(status) ==
  [n \in 0 .. (4 * TRANSFER_STATUS_STATUS_LENGTH - 1) |->
     DecodeVote(status[n \div 4], 2 * (n % 4))]

\* `receipt` of a poll that concluded without 451 processed votes
NoPollReceipt == [computerState |-> NoResponse, slabs |-> <<>>]

\* getTransferStatus (connection.js:259-330).  Spreading the
\* computorPublicKeys of a connection that never published a snapshot throws
\* before the state is registered.  The per-computor response tables and
\* comparison statuses are left out: the statuses start at 1 and
\* compareResponses never lowers them, so the test `status >= 1` of
\* connection.js:683 passes for every verified slab.
getTransferStatus(digest) ==
  /\ polls < MaxPolls
  /\ polls' = polls + 1
  /\ IF latestComputerState.bytes = NoResponse
     THEN /\ UNCHANGED <<transferStatusResponsesStateByDigest, requestLoops>>
          /\ pollLog' = [NoPollLog EXCEPT !.threw = TRUE]
     ELSE /\ transferStatusResponsesStateByDigest' =
               MapSet(transferStatusResponsesStateByDigest, digest,
                      [requestTimestamp |-> Timestamp(polls + 1),
                       processedFlags |-> {},
                       computorReports |-> <<>>,
                       computerState |-> latestComputerState,
                       statuses |-> <<>>,
                       resolvers |->
                         IF digest \in DOMAIN transferStatusResponsesStateByDigest
                         THEN transferStatusResponsesStateByDigest[digest].resolvers + 1
                         ELSE 1])
          /\ requestLoops' =
               Append(requestLoops, [digest |-> digest, timestamp |-> Timestamp(polls + 1),
                                     i |-> 0, requestsToResend |-> <<>>])
          /\ pollLog' = [NoPollLog EXCEPT !.started = TRUE]
  /\ requestsBySocket' = Quiet(requestsBySocket)
  /\ UNCHANGED transferStatusRequestsToResendByDigest
  /\ UNCHANGED <<quorumVars, socketVars, engineVars, ledgerVars, launchVars, moduleVars>>

\* a request of TRANSFER_STATUS_REQUEST_LENGTH bytes (connection.js:286-299,
\* 310-316)
StatusRequest(loop) ==
  [digest |-> loop.digest, timestamp |-> loop.timestamp, computorIndex |-> loop.i]

\* one turn of the loop of getTransferStatus (connection.js:302-327): the
\* 100 ms timer of the k-th call in progress fires, the request of computor i
\* is kept for resending and handed to every socket: sent at once on an open
\* one, once socket.open resolves on one that is connecting.  After the turn
\* of the last computor the requests become the resend set of the digest.
getTransferStatusTimer(k) ==
  LET loop == requestLoops[k]
      request == StatusRequest(loop)
      requestsToResend == Append(loop.requestsToResend, request)
      last == loop.i = NUMBER_OF_COMPUTORS - 1
  IN /\ requestsBySocket' =
          [s \in Slots |->
             IF readyState[s] = OPEN
             THEN [requestsBySocket[s] EXCEPT !.sent = <<request>>]
             ELSE IF readyState[s] = CONNECTING
             THEN [requestsBySocket[s] EXCEPT !.awaitingOpen = Append(@, request),
                                              !.sent = <<>>]
             ELSE Quiet(requestsBySocket)[s]]
     /\ requestLoops' =
          IF last
          THEN [n \in 1 .. (Len(requestLoops) - 1) |->
                  IF n < k THEN requestLoops[n] ELSE requestLoops[n + 1]]
          ELSE [requestLoops EXCEPT ![k] =
                  [loop EXCEPT !.i = @ + 1, !.requestsToResend = requestsToResend]]
     /\ transferStatusRequestsToResendByDigest' =
          IF last
          THEN MapSet(transferStatusRequestsToResendByDigest, loop.digest, requestsToResend)
          ELSE transferStatusRequestsToResendByDigest
     /\ pollLog' = NoPollLog
     /\ UNCHANGED <<transferStatusResponsesStateByDigest, polls>>
     /\ UNCHANGED <<quorumVars, socketVars, engineVars, ledgerVars, launchVars, moduleVars>>

\* one of the timers socket.onopen armed fires (connection.js:445-453): the
\* request is sent if the socket is still open
resendTimer(i) ==
  /\ requestsBySocket[i].toResend # <<>>
  /\ requestsBySocket' =
       [Quiet(requestsBySocket) EXCEPT ![i] =
          [@ EXCEPT !.toResend = Tail(@),
                    !.sent = IF readyState[i] = OPEN
                             THEN <<Head(requestsBySocket[i].toResend)>>
                             ELSE <<>>]]
  /\ pollLog' = NoPollLog
  /\ UNCHANGED <<transferStatusResponsesStateByDigest, polls,
                 transferStatusRequestsToResendByDigest, requestLoops>>
  /\ UNCHANGED <<quorumVars, socketVars, engineVars, ledgerVars, launchVars, moduleVars>>

\* the four tests of connection.js:621-659 on one slab.  The timestamp is read
\* at RESPONSE_TIMESTAMP_OFFSET of the message (`header`); computorIndex,
\* epoch and tick through responseView, a view of the whole message, at the
\* offset of the slab within its frame (`viewed`); the signed region and the
\* signature from the frame itself (`own`)
SlabVerifiedAs(state, header, viewed, own) ==
  /\ state.requestTimestamp = header.timestamp
  /\ viewed.epoch = Epoch(state.computerState)
  /\ viewed.tick <= state.computerState.tick
  /\ Verify(computorPublicKeys(state.computerState)[viewed.computorIndex],
            SlabDigest(own.digest, own.status, own.computorIndex, own.epoch, own.tick),
            own.signature)

\* the tests on the slab at `frame[k]` of a message that holds one frame
SlabVerified(state, frame, k) == SlabVerifiedAs(state, frame[1], frame[k], frame[k])

\* the body of the loop of connection.js:608-812 for one slab, on the map
\* `st.map`, adding what it does to `st.log`
ReceiveSlabAs(header, viewed, own, st) ==
  LET digest == own.digest
      computorIndex == viewed.computorIndex
  IN IF digest \notin DOMAIN st.map THEN st
     ELSE IF ~ SlabVerifiedAs(st.map[digest], header, viewed, own) THEN st
     ELSE IF computorIndex \in st.map[digest].processedFlags THEN st
     ELSE
       LET state == st.map[digest]
           statuses == MapSet(state.statuses, computorIndex, DecodeStatus(own.status))
           hasReportedProcessed ==
             \E n \in DOMAIN statuses[computorIndex] : statuses[computorIndex][n] = 2
           computorReports == IF hasReportedProcessed
                              THEN Append(state.computorReports, own)
                              ELSE state.computorReports
           report == Report(statuses)
           event == [hash |-> digest,
                     unseen |-> (report[3] + report[0]) \div (NUMBER_OF_COMPUTORS - 1),
                     seen |-> Floor(report, 1),
                     processed |-> Floor(report, 2),
                     epoch |-> viewed.epoch,
                     tick |-> viewed.tick]
           concluded == \E v \in 0 .. 2 : Floor(report, v) >= QuorumThreshold
           receipt == IF Floor(report, 2) >= QuorumThreshold
                      THEN [computerState |-> state.computerState.bytes,
                            slabs |-> computorReports]
                      ELSE NoPollReceipt
           resolution == [status |-> event, receipt |-> receipt]
       IN [map |-> IF concluded
                   THEN MapDelete(st.map, digest)
                   ELSE MapSet(st.map, digest,
                               [state EXCEPT !.processedFlags = @ \cup {computorIndex},
                                             !.statuses = statuses,
                                             !.computorReports = computorReports]),
           log |-> [st.log EXCEPT
                      !.counted = Append(@, own),
                      !.events = Append(@, event),
                      !.resolutions =
                        IF concluded
                        THEN @ \o [n \in 1 .. state.resolvers |-> resolution]
                        ELSE @]]

\* the loop body for the slab at `frame[k]` of a message that holds one frame
ReceiveSlab(frame, k, st) == ReceiveSlabAs(frame[1], frame[k], frame[k], st)

RECURSIVE ReceiveSlabs(_, _, _)
ReceiveSlabs(frame, k, st) ==
  IF k > Len(frame) THEN st
  ELSE ReceiveSlabs(frame, k + 1, ReceiveSlab(frame, k, st))

\* socket.onmessage for a frame of the GET_TRANSFER_STATUS kind
\* (connection.js:607-813) on an open socket.  The handler awaits the crypto
\* import, resolved long before a socket is open, so its continuations run
\* before the next message is delivered.
onmessageTransferStatus(frame) ==
  /\ {i \in Slots : readyState[i] = OPEN} # {}
  /\ LET st == ReceiveSlabs(frame, 1, [map |-> transferStatusResponsesStateByDigest,
                                       log |-> NoPollLog])
     IN /\ transferStatusResponsesStateByDigest' = st.map
        /\ pollLog' = st.log
        /\ transferStatusRequestsToResendByDigest' =
             [digest \in DOMAIN transferStatusRequestsToResendByDigest
                          \ {st.log.resolutions[n].status.hash :
                               n \in 1 .. Len(st.log.resolutions)}
                |-> transferStatusRequestsToResendByDigest[digest]]
        /\ requestsBySocket' = Quiet(requestsBySocket)
  /\ UNCHANGED <<polls, requestLoops>>
  /\ UNCHANGED <<quorumVars, socketVars, engineVars, ledgerVars, launchVars, moduleVars>>

NextPoll ==
  \/ getTransferStatus(PolledDigest)
  \/ \E frame \in StatusFrames : onmessageTransferStatus(frame)

SpecPoll == InitPoll /\ [][NextPoll]_vars

\* the status bytes of a slab whose first byte is `byte`; the other bytes hold
\* its complement
StatusOf(byte) ==
  [i \in 0 .. (TRANSFER_STATUS_STATUS_LENGTH - 1) |-> IF i = 0 THEN byte ELSE 255 - byte]

\* slabs of computor 0 with every value of the status byte, and slabs of the
\* last computor that give every computor the processed vote or the reserved
\* pattern, all echoing the first poll
DecodedSlabs ==
  {StatusSlab(Timestamp(1), PolledDigest, StatusOf(byte), 0, PayloadEpoch, 1, 0) :
     byte \in 0 .. 255}
    \cup {Slab(Timestamp(1), PolledDigest, bits, NUMBER_OF_COMPUTORS - 1, PayloadEpoch, 1,
               NUMBER_OF_COMPUTORS - 1) : bits \in {2, 3}}

InitStatusBytes == Synchronized(1) /\ InitPolls /\ InitLedger

NextStatusBytes ==
  \/ getTransferStatus(PolledDigest)
  \/ \E slab \in DecodedSlabs : onmessageTransferStatus(<<slab>>)

SpecStatusBytes == InitStatusBytes /\ [][NextStatusBytes]_vars

(***************************************************************************)
(* socket.onmessage on a message that holds several frames.  A message is  *)
(* a sequence of cells: a slab with its header, the header of a peer       *)
(* exchange, or one gossiped address; the size prefix of a frame counts    *)
(* its cells.                                                              *)
(***************************************************************************)
\* number of frames one message holds
MaxFrames == 2

\* what PUBLIC_PEER_LENGTH bytes that are no address give when joined with
\* dots, and what an empty subarray gives
NotAnAddress == NUMBER_OF_CONNECTIONS + 1
EmptyAddress == NUMBER_OF_CONNECTIONS + 2

\* bytes that are no slab of a poll
UnreadableSlab == StatusSlab(0, 0, UniformStatus(0), 0, 0, 0, 0)

\* one cell: what the bytes at SIZE_OFFSET, REQUEST_OFFSET and
\* RESPONSE_TYPE_OFFSET of the cell hold, the cell read as a slab and the
\* cell read as a public peer
Cell(size, request, type, slab, peer) ==
  [size |-> size, request |-> request, type |-> type, slab |-> slab, peer |-> peer]

\* a GET_TRANSFER_STATUS frame of the slabs `slabs`
StatusFrameOf(slabs) ==
  [k \in 1 .. Len(slabs) |->
     Cell(Len(slabs), "WEBSOCKET", "GET_TRANSFER_STATUS", slabs[k], NotAnAddress)]

\* an EXCHANGE_PUBLIC_PEERS frame: the header and NUMBER_OF_PUBLIC_PEERS
\* addresses
ExchangeFrameOf(gossip) ==
  <<Cell(1 + NUMBER_OF_PUBLIC_PEERS, "EXCHANGE_PUBLIC_PEERS", "none", UnreadableSlab,
         NotAnAddress)>>
    \o [k \in 1 .. NUMBER_OF_PUBLIC_PEERS |->
          Cell(0, "none", "none", UnreadableSlab, gossip[k])]

\* the frames peers send: processed votes of one or two computors echoing
\* the first poll, and a peer exchange
InboundFrames ==
  LET Processed(c) == Slab(Timestamp(1), PolledDigest, 2, c, PayloadEpoch, 1, c)
  IN {StatusFrameOf(<<Processed(0)>>), StatusFrameOf(<<Processed(1)>>),
      StatusFrameOf(<<Processed(1), Processed(2)>>),
      ExchangeFrameOf([k \in 1 .. NUMBER_OF_PUBLIC_PEERS |-> NUMBER_OF_CONNECTIONS])}

\* messages of one to MaxFrames frames
RECURSIVE MessagesOf(_)
MessagesOf(n) ==
  IF n = 1 THEN InboundFrames
  ELSE MessagesOf(n - 1) \cup {m \o f : m \in MessagesOf(n - 1), f \in InboundFrames}

InboundMessages == MessagesOf(MaxFrames)

\* the fields the GET_TRANSFER_STATUS branch reads for the slab at offset k
\* of `response` (connection.js:613-632): the digest from the frame, the
\* timestamp and computorIndex, epoch and tick through responseView
StatusFields(data, response, k) ==
  [digest |-> response[k].slab.digest,
   timestamp |-> data[1].slab.timestamp,
   computorIndex |-> data[k].slab.computorIndex,
   epoch |-> data[k].slab.epoch,
   tick |-> data[k].slab.tick]

\* the addresses the EXCHANGE_PUBLIC_PEERS branch reads from `response`
\* (connection.js:817-824)
GossipOf(response) ==
  [n \in 1 .. NUMBER_OF_PUBLIC_PEERS |->
     IF n + 1 <= Len(response) THEN response[n + 1].peer ELSE EmptyAddress]

\* the while loop of socket.onmessage (connection.js:459-472, 833-836): the
\* frames it cuts from `data` starting at `offset`, with the request kind,
\* the sub-kind and the fields each is handled with.  The size and the
\* request kind are read at SIZE_OFFSET and REQUEST_OFFSET of the message
FrameLoop(data, offset) ==
  LET RECURSIVE Loop(_)
      Loop(o) ==
        IF o >= Len(data) THEN <<>>
        ELSE LET response == SubSeq(data, o + 1, Min(o + data[1].size, Len(data)))
                 request == data[1].request
                 type == response[1].type
             IN <<[offset |-> o, response |-> response, request |-> request, type |-> type,
                   fields |-> IF request = "WEBSOCKET" /\ type = "GET_TRANSFER_STATUS"
                              THEN [k \in 1 .. Len(response) |->
                                      StatusFields(data, response, k)]
                              ELSE IF request = "EXCHANGE_PUBLIC_PEERS"
                              THEN GossipOf(response)
                              ELSE <<>>]>>
                  \o Loop(o + Len(response))
  IN Loop(offset)

\* the slabs of `response` from offset k on, handled one after the other
RECURSIVE ReceiveSlabsAs(_, _, _, _)
ReceiveSlabsAs(data, response, k, st) ==
  IF k > Len(response) THEN st
  ELSE LET received == ReceiveSlabAs(data[1].slab, data[k].slab, response[k].slab,
                                    [map |-> st.map, log |-> st.log])
       IN ReceiveSlabsAs(data, response, k + 1,
                         [map |-> received.map, log |-> received.log,
                          sockets |-> st.sockets])

\* the frames from the n-th on, handled one after the other by the switch of
\* connection.js:470-832
RECURSIVE HandleFrames(_, _, _, _)
HandleFrames(data, dispatched, n, st) ==
  IF n > Len(dispatched) THEN st
  ELSE LET frame == dispatched[n]
       IN HandleFrames(data, dispatched, n + 1,
            IF frame.request = "WEBSOCKET" /\ frame.type = "GET_TRANSFER_STATUS"
            THEN ReceiveSlabsAs(data, frame.response, 1, st)
            ELSE IF frame.request = "EXCHANGE_PUBLIC_PEERS"
            THEN [st EXCEPT !.sockets =
                    ReopenClosed([@ EXCEPT !.publicPeers = @ \o frame.fields], 0)]
            ELSE st)

\* socket.onmessage (connection.js:458-837) on an open socket, for a message
\* of GET_TRANSFER_STATUS and EXCHANGE_PUBLIC_PEERS frames
onmessage(data) ==
  /\ {i \in Slots : readyState[i] = OPEN} # {}
  /\ LET dispatched == FrameLoop(data, 0)
         st == HandleFrames(data, dispatched, 1,
                            [map |-> transferStatusResponsesStateByDigest,
                             log |-> NoPollLog,
                             sockets |-> Current(<<>>)])
     IN /\ Len(st.sockets.publicPeers) <= MaxFrames * MaxQueue
        /\ Becomes(st.sockets)
        /\ transferStatusResponsesStateByDigest' = st.map
        /\ pollLog' = st.log
        /\ transferStatusRequestsToResendByDigest' =
             [digest \in DOMAIN transferStatusRequestsToResendByDigest
                          \ {st.log.resolutions[n].status.hash :
                               n \in 1 .. Len(st.log.resolutions)}
                |-> transferStatusRequestsToResendByDigest[digest]]
        /\ frameLog' = [data |-> data, dispatched |-> dispatched]
  /\ UNCHANGED <<polls, requestLoops, latestStamp, wallClock, stamps, lastClose, computor>>
  /\ UNCHANGED <<latestComputerState, computerStateComparisonRightOffset,
                 computerStateResponsesByTimestamp, latestComputerStateRequestTimestamp,
                 sinceSynchronization, requestTimer, synchronizationTimer,
                 info, roundInfo, arrivals, compared>>
  /\ UNCHANGED <<ledgerVars, launchVars, engineVars>>

InitFrames == Synchronized(1) /\ InitPolls /\ InitLedger

NextFrames ==
  \/ getTransferStatus(PolledDigest)
  \/ \E data \in InboundMessages : onmessage(data)

SpecFrames == InitFrames /\ [][NextFrames]_vars

(***************************************************************************)
(* The single-socket computor client of unnamed/part_002: one WebSocket,   *)
(* reopened reconnectTimeoutDuration after the remote closed it, and the   *)
(* requests of getNodeInfo() and shutdown() kept by type.  A request is    *)
(* its number in the order of the calls, with its type.                    *)
(***************************************************************************)
\* number of getNodeInfo() and shutdown() calls explored
MaxRequests == 2
\* number of sockets the client creates
MaxSockets == 2

\* REQUEST_TYPES (part_002:27-30)
ComputorRequestTypes == {"GET_NODE_INFO", "SHUTDOWN"}

\* map.get(type) of a Map kept as the sequence of its entries, in insertion
\* order; <<>> for undefined
EntryOf(map, type) ==
  IF \E k \in 1 .. Len(map) : map[k].type = type
  THEN (CHOOSE k \in 1 .. Len(map) : map[k].type = type)
  ELSE 0

\* the array of `type` with `value` pushed, created if the Map has none
\* (part_002:192-197, 199-209)
Pushed(map, type, value) ==
  IF EntryOf(map, type) = 0
  THEN Append(map, [type |-> type, values |-> <<value>>])
  ELSE [map EXCEPT ![EntryOf(map, type)].values = Append(@, value)]

\* array.splice(i, 1) for a 0-based index i
Splice(array, i) ==
  IF i < Len(array)
  THEN SubSeq(array, 1, i) \o SubSeq(array, i + 2, Len(array))
  ELSE array

\* the array after the callbacks of socket.onopen ran for the indexes i, i + 1,
\* ... the array had when forEach visited it (part_002:89-96): each removes
\* what is at its index by then
RECURSIVE SplicedFrom(_, _, _)
SplicedFrom(array, i, length) ==
  IF i >= length THEN array
  ELSE SplicedFrom(Splice(array, i), i + 1, length)

\* all values of the Map, type by type
RECURSIVE AllRequests(_)
AllRequests(map) ==
  IF map = <<>> THEN <<>> ELSE Head(map).values \o AllRequests(Tail(map))

\* send(request) (part_002:191-216) as called by getNodeInfo() and shutdown()
\* (part_002:221-262): the request and a resolver are kept under the type,
\* and socket.send is chained to socket.open.  An open socket sends at once;
\* on a socket that has not opened the callback waits; a socket that opened
\* and has closed since throws in the callback
computorSend(type) ==
  LET request == [id |-> Len(AllRequests(computor.responsesByType)) + 1, type |-> type]
  IN /\ request.id <= MaxRequests
     /\ computor' =
          [computor EXCEPT
             !.requestsByType = Pushed(@, type, request),
             !.responsesByType = Pushed(@, type, request.id),
             !.awaitingOpen = IF computor.opened THEN @ ELSE Append(@, request),
             !.sent = IF computor.opened /\ computor.readyState = OPEN
                      THEN Append(@, request)
                      ELSE @]
     /\ UNCHANGED <<quorumVars, socketVars, engineVars, ledgerVars, launchVars>>
     /\ UNCHANGED <<pollMaps, latestStamp, wallClock, stamps, frameLog, lastClose,
                    transferStatusRequestsToResendByDigest, requestLoops, requestsBySocket>>

\* socket.onopen (part_002:85-97): socket.open is resolved, which runs the
\* callbacks send() chained to it; then every request of requestsByType is
\* chained to socket.open as well, sent and spliced out at the index forEach
\* visited it at
computorOnopen ==
  /\ computor.readyState = CONNECTING
  /\ computor' =
       [computor EXCEPT
          !.readyState = OPEN,
          !.opened = TRUE,
          !.awaitingOpen = <<>>,
          !.sent = @ \o computor.awaitingOpen \o AllRequests(computor.requestsByType),
          !.requestsByType =
             [k \in 1 .. Len(@) |->
                [@[k] EXCEPT !.values = SplicedFrom(@, 0, Len(@))]]]
  /\ UNCHANGED <<quorumVars, socketVars, engineVars, ledgerVars, launchVars>>
  /\ UNCHANGED <<pollMaps, latestStamp, wallClock, stamps, frameLog, lastClose,
                 transferStatusRequestsToResendByDigest, requestLoops, requestsBySocket>>

\* the socket closes: the remote closed it, the connection failed, or
\* socket.close() has finished.  socket.onclose (part_002:99-102), if still
\* set, sets closed and arms the reconnect timer; the callbacks chained to a
\* socket.open that was never resolved are not run
computorOnclose ==
  /\ computor.readyState # CLOSED
  /\ computor' =
       [computor EXCEPT
          !.readyState = CLOSED,
          !.awaitingOpen = <<>>,
          !.closed = IF computor.onclose THEN TRUE ELSE @,
          !.reconnectTimeout = IF computor.onclose THEN TRUE ELSE @]
  /\ UNCHANGED <<quorumVars, socketVars, engineVars, ledgerVars, launchVars>>
  /\ UNCHANGED <<pollMaps, latestStamp, wallClock, stamps, frameLog, lastClose,
                 transferStatusRequestsToResendByDigest, requestLoops, requestsBySocket>>

\* reconnectTimeout fires and calls open() (part_002:76-84, 101)
reconnectTimer ==
  /\ computor.reconnectTimeout
  /\ computor.sockets < MaxSockets
  /\ computor' =
       IF computor.closed
       THEN [computor EXCEPT !.reconnectTimeout = FALSE,
                             !.closed = FALSE,
                             !.readyState = CONNECTING,
                             !.opened = FALSE,
                             !.onclose = TRUE,
                             !.awaitingOpen = <<>>,
                             !.sockets = @ + 1]
       ELSE [computor EXCEPT !.reconnectTimeout = FALSE]
  /\ UNCHANGED <<quorumVars, socketVars, engineVars, ledgerVars, launchVars>>
  /\ UNCHANGED <<pollMaps, latestStamp, wallClock, stamps, frameLog, lastClose,
                 transferStatusRequestsToResendByDigest, requestLoops, requestsBySocket>>

\* close() (part_002:171-178)
computorClose ==
  /\ computor' =
       [computor EXCEPT
          !.onclose = FALSE,
          !.reconnectTimeout = FALSE,
          !.closed = TRUE,
          !.readyState = IF ~ computor.closed /\ @ \in {CONNECTING, OPEN} THEN CLOSING ELSE @,
          !.closeCalled = TRUE]
  /\ UNCHANGED <<quorumVars, socketVars, engineVars, ledgerVars, launchVars>>
  /\ UNCHANGED <<pollMaps, latestStamp, wallClock, stamps, frameLog, lastClose,
                 transferStatusRequestsToResendByDigest, requestLoops, requestsBySocket>>

NextComputor ==
  \/ \E type \in ComputorRequestTypes : computorSend(type)
  \/ computorOnopen
  \/ computorOnclose
  \/ reconnectTimer
  \/ computorClose

\* a timer that is armed fires
FairnessComputor == WF_vars(reconnectTimer)

SpecComputor == Init /\ [][NextComputor]_vars /\ FairnessComputor

(***************************************************************************)
(* timestamp() of unnamed/part_000: the wall clock in nanoseconds, pushed  *)
(* past the value the previous call returned.                              *)
(***************************************************************************)
\* number of timestamp() calls explored
MaxStamps == 4
\* latest reading of the wall clock explored, in milliseconds
MaxDate == 2

\* nanoseconds per millisecond, the factor 1000000n of part_000:16
NanosecondsPerMillisecond == 1000000

\* the clock reading in nanoseconds (part_000:4-16): the fields of the Date
\* folded into one count of milliseconds, times 1000000n
ClockTimestamp(reading) == reading * NanosecondsPerMillisecond

\* part_000:18-26 without the step past an equal value
StampRepeatsLatest(latest, reading) ==
  LET ts == ClockTimestamp(reading)
  IN IF latest = <<>> THEN ts
     ELSE IF latest[1] >= ts
     THEN IF latest[1] > ts THEN latest[1] ELSE ts + NanosecondsPerMillisecond
     ELSE ts

\* the value timestamp() returns when the module variable is `latest` and the
\* clock reads `reading` (part_000:18-29)
Stamp(latest, reading) ==
  LET ts == ClockTimestamp(reading)
  IN IF latest = <<>> THEN ts
     ELSE IF latest[1] >= ts
     THEN LET raised == IF latest[1] > ts THEN latest[1] ELSE ts
          IN IF latest[1] = raised THEN raised + NanosecondsPerMillisecond ELSE raised
     ELSE ts

\* timestamp() (part_000:3-31)
timestamp ==
  /\ Len(stamps) < MaxStamps
  /\ latestStamp' = <<Stamp(latestStamp, wallClock)>>
  /\ stamps' = Append(stamps, [date |-> wallClock, ts |-> Stamp(latestStamp, wallClock)])
  /\ UNCHANGED <<wallClock, frameLog, lastClose, computor>>
  /\ UNCHANGED <<quorumVars, socketVars, engineVars, ledgerVars, launchVars>>
  /\ UNCHANGED <<pollMaps, transferStatusRequestsToResendByDigest, requestLoops,
                 requestsBySocket>>

\* the wall clock advances, or is set back
clockMoves ==
  /\ \E reading \in 0 .. MaxDate : reading # wallClock /\ wallClock' = reading
  /\ UNCHANGED <<latestStamp, stamps, frameLog, lastClose, computor>>
  /\ UNCHANGED <<quorumVars, socketVars, engineVars, ledgerVars, launchVars>>
  /\ UNCHANGED <<pollMaps, transferStatusRequestsToResendByDigest, requestLoops,
                 requestsBySocket>>

NextTimestamps == timestamp \/ clockMoves

SpecTimestamps == Init /\ [][NextTimestamps]_vars

\* the processed votes of computors 0, 1 and 2 about the polled digest, in
\* two frames: enough for the threshold, echoing one of the polls
ProcessedFrame(n, first) ==
  LET Processed(c) == Slab(Timestamp(n), PolledDigest, 2, c, PayloadEpoch, 1, c)
  IN IF first THEN <<Processed(0), Processed(1)>> ELSE <<Processed(2)>>

ProcessedFrames == {ProcessedFrame(n, first) : n \in 1 .. MaxPolls, first \in BOOLEAN}

\* computors answer the requests they were sent: the loop of the poll the
\* frame echoes has passed every computor of the frame, or has ended
Requested(frame) ==
  /\ frame[1].timestamp <= Timestamp(polls)
  /\ \A k \in 1 .. Len(requestLoops) :
        requestLoops[k].timestamp = frame[1].timestamp =>
          \A n \in 1 .. Len(frame) : frame[n].computorIndex < requestLoops[k].i

\* a synchronized connection with no poll started
InitStatusRequests ==
  /\ Synchronized(1)
  /\ InitPolls
  /\ InitLedger

\* polls with their sending loops, the answers of the computors, and a socket
\* the embedder replaces
NextStatusRequests ==
  \/ getTransferStatus(PolledDigest)
  \/ \E k \in 1 .. Len(requestLoops) : getTransferStatusTimer(k)
  \/ \E frame \in ProcessedFrames : Requested(frame) /\ onmessageTransferStatus(frame)
  \/ setPeer(0, NUMBER_OF_CONNECTIONS)
  \/ onopen(0)
  \/ resendTimer(0)

SpecStatusRequests == InitStatusRequests /\ [][NextStatusRequests]_vars

(***************************************************************************)
(* From the provisional record to the `receipt` event: the client on a     *)
(* synchronized connection, its infoListener calling getTransferStatus     *)
(* and resuming with the response the poll resolves.                       *)
(***************************************************************************)
\* the stores of this run: a verifying one without records, one with the
\* provisional record transfer() wrote in an earlier run, and the latter as
\* setEnergy leaves it when called before the replay of a run delivered its
\* first key (client.js:927-943 signs the essence of the empty memory)
DeliveryStores ==
  LET provisional == [k \in {1} |-> StoredTransfer(0, PolledDigest, TRUE, TRUE,
                                                   Now - RebroadcastAfter)]
      verifying == {LaunchStore(records, MaxEnergy, TRUE) : records \in {<<>>, provisional}}
  IN verifying
       \cup {[db EXCEPT !.signature = Sign(databaseEssence(0, MaxEnergy, <<>>))] :
               db \in verifying}

InitDelivery ==
  /\ Synchronized(1)
  /\ InitPolls
  /\ InitMemory
  /\ database \in DeliveryStores
  /\ stream = StreamOf(database)

\* the poll of the digest has just resolved with a receipt and the listener
\* awaiting it has not resumed yet; its continuation is a microtask, run
\* before any timer or message
PendingResolution ==
  /\ \E n \in 1 .. Len(pollLog.resolutions) :
        /\ pollLog.resolutions[n].status.hash = PolledDigest
        /\ pollLog.resolutions[n].receipt # NoPollReceipt
  /\ PolledDigest \in DOMAIN listeners
  /\ ~listeners[PolledDigest].receivedReceipt

\* an `info` event with status >= 2, late enough after the previous request:
\* the infoListener of the transfer calls getTransferStatus (client.js:162-169)
infoListenerPolls ==
  /\ PolledDigest \in DOMAIN listeners
  /\ ~listeners[PolledDigest].receivedReceipt
  /\ latestComputerState.status >= 2
  /\ ~PendingResolution
  /\ getTransferStatus(PolledDigest)

\* the sending loop of a poll goes on
pollTimer(k) == ~PendingResolution /\ getTransferStatusTimer(k)

\* computors answer the requests they were sent with their processed votes
computorsAnswer(frame) ==
  ~PendingResolution /\ Requested(frame) /\ onmessageTransferStatus(frame)

\* the infoListener resumes with the receipt of the poll
infoListenerResumes ==
  /\ PendingResolution
  /\ infoListener(1, PolledDigest, SlabRun(QuorumThreshold, PolledDigest, TRUE, 2))

\* one transfer made on a store without records, or the provisional record
\* of an earlier run; every batch succeeds
NextDelivery ==
  \/ NextLaunch
  \/ database.records = <<>> /\ calls = 0 /\ transfer(1, "other", MaxEnergy)
  \/ transferAfterAESCounter(1)
  \/ transferWrite(1, "ok")
  \/ transferAfterWrite(1)
  \/ infoListenerPolls
  \/ \E k \in 1 .. Len(requestLoops) : pollTimer(k)
  \/ \E frame \in ProcessedFrames : computorsAnswer(frame)
  \/ infoListenerResumes
  \/ infoListenerAfterAESCounter(1)
  \/ infoListenerAfterId(1)
  \/ infoListenerWrite(1, "ok")
  \/ infoListenerAfterWrite(1)

\* continuations and timers run, the stream delivers its events, `info`
\* events with status >= 2 keep coming and the computors keep answering: no
\* step undoes another, so a run goes on as long as a step is possible
FairnessDelivery == WF_vars(NextDelivery)

SpecDelivery == InitDelivery /\ [][NextDelivery]_vars /\ FairnessDelivery

(***************************************************************************)
(* Observations on the ledger.                                             *)
(***************************************************************************)
\* hashes of the transfers that have a record in the store
StoredHashes ==
  {Decrypt(k, database.records[k]).hash : k \in DOMAIN database.records}

\* the computors that signed, with a key of the snapshot, a slab about hash h
\* carrying a processed vote
ProcessedReporters(run, h) ==
  {s.computorIndex : s \in {x \in Slabs(run) :
      /\ x.signature
      /\ x.transferHash = h
      /\ \E j \in Computors : x.votes[j] = 2}}

\* the step ends the call or handler run in slot t with a batch that failed
FailedIn(t, ops) ==
  /\ tasks[t].op \in ops
  /\ tasks'[t] = NoTask
  /\ lastBatch' \in {"thrown", "caught", "rejected"}

(***************************************************************************)
(* C1: a transfer is handed to connection.broadcastTransfer only once the  *)
(* batch {counter, signature, counter -> tag-0 record} of its transfer()   *)
(* call has been written; a call whose batch failed, or has not been       *)
(* issued yet, has broadcast nothing.                                      *)
(***************************************************************************)
C1_BroadcastOnlyAfterWrite ==
  /\ broadcasts \subseteq StoredHashes
  /\ \A t \in Tasks :
       tasks[t].op = "transfer" /\ tasks[t].pc \in {"AESCounter", "batch"}
         => tasks[t].hash \notin broadcasts

\* a transfer() call has written its batch and broadcast the transfer
C1_Witness ==
  /\ lastBatch = "ok"
  /\ \E h \in broadcasts : h \in StoredHashes /\ h \in DOMAIN listeners

(***************************************************************************)
(* C2: every `receipt` event, from status polling or from importReceipt,   *)
(* rests on at least 451 (QuorumThreshold) distinct computors that signed, *)
(* verifiably under the snapshot, a slab with a processed vote for the     *)
(* hash of the event.                                                      *)
(***************************************************************************)
C2_ReceiptNeedsQuorum ==
  \A e \in receiptEvents :
    Cardinality(ProcessedReporters(e.slabs, e.hash)) >= QuorumThreshold

(***************************************************************************)
(* C3: once a batch has been written, the stored signature verifies under  *)
(* the identity key against the essence recomputed from the stored         *)
(* counter, the stored energy and the hashes of the stored records.        *)
(***************************************************************************)
C3_StoredSignatureVerifies ==
  database.signature # NoSignature
    => Verify("self", ReplayedEssence(database), database.signature)

(***************************************************************************)
(* C4: when the write of setEnergy or the batch of the processed rewrite   *)
(* fails, the in-memory energy is back at the value it had before the      *)
(* call (the copy the code took before assigning).                         *)
(***************************************************************************)
C4_EnergyRolledBack ==
  [][\A t \in Tasks :
       FailedIn(t, {"setEnergy", "processTransferStatus"})
         => energy' = tasks[t].energyCopy]_vars

(***************************************************************************)
(* C5: when the batch of transfer(), of the processed rewrite or of        *)
(* importReceipt() is refused and no later operation has taken a key yet,  *)
(* the counter is back at the value before the operation, so that the next *)
(* operation takes the same key, and so is the energy.                     *)
(***************************************************************************)
C5_ScalarsRolledBack ==
  [][\A t \in Tasks :
       /\ FailedIn(t, {"transfer", "processTransferStatus", "importReceipt"})
       /\ counter = tasks[t].counterValue
       => /\ counter' = tasks[t].counterValue - 1
          /\ energy' = IF tasks[t].op = "transfer" THEN energy
                       ELSE tasks[t].energyCopy]_vars

(***************************************************************************)
(* Observations on a computer-state round.                                 *)
(***************************************************************************)
\* the response table of the pending request
CurrentResponses ==
  computerStateResponsesByTimestamp[latestComputerStateRequestTimestamp]

AnsweredOnce(i) == arrivals[i] = [accepted |-> 1, invalid |-> 0, stale |-> 0]
RejectedOnce(i) == arrivals[i] = [accepted |-> 0, invalid |-> 1, stale |-> 0]

\* every peer delivered exactly one verified response to the pending request
EachPeerAnsweredOnce == \A i \in Slots : AnsweredOnce(i)

SameSignature(i, j) == CurrentResponses[i].signature = CurrentResponses[j].signature

\* exactly two of the three responses carry byte-identical signatures
ExactlyTwoAgree ==
  /\ EachPeerAnsweredOnce
  /\ \E d \in Slots :
       /\ \A i, j \in Slots \ {d} : SameSignature(i, j)
       /\ \A i \in Slots \ {d} : ~SameSignature(d, i)

AllThreeAgree ==
  /\ EachPeerAnsweredOnce
  /\ \A i, j \in Slots : SameSignature(i, j)

\* one peer sent a frame the verifier rejects, the two others agree
OneInvalidTwoAgree ==
  \E d \in Slots :
    /\ RejectedOnce(d)
    /\ \A i \in Slots \ {d} : AnsweredOnce(i)
    /\ \A i, j \in Slots \ {d} : SameSignature(i, j)

(***************************************************************************)
(* C6: in a round where exactly two peers answer with byte-identical admin *)
(* signatures and the third with a different valid response, the handler   *)
(* emits `info` with status 1 and then 2 and never 3, whatever the arrival *)
(* order and whichever slot dissents.                                      *)
(***************************************************************************)
C6_TwoOfThreeEmitsOneTwo ==
  ExactlyTwoAgree => roundInfo = <<1, 2>>

(***************************************************************************)
(* C7: in every round (the first and every later one) in which the three   *)
(* peers answer identically, the handler emits status 1, 2, 3 in order.    *)
(***************************************************************************)
C7_ThreeOfThreeEmitsOneTwoThree ==
  AllThreeAgree => roundInfo = <<1, 2, 3>>

(***************************************************************************)
(* C8: once the three responses of a round have arrived, any two equal     *)
(* signatures give a status of at least 2, and each pair of responses was  *)
(* compared exactly once.                                                  *)
(***************************************************************************)
C8_AgreementSymmetric ==
  EachPeerAnsweredOnce =>
    /\ (\E p \in SlotPairs : SameSignature(p[1], p[2])) => latestComputerState.status >= 2
    /\ \A p \in SlotPairs : compared[p] = 1

(***************************************************************************)
(* C9: between two consecutive getComputerState requests the status values *)
(* carried by the emitted `info` events never decrease.                    *)
(***************************************************************************)
C9_StatusNonDecreasingInRound ==
  [][(/\ latestComputerStateRequestTimestamp' = latestComputerStateRequestTimestamp
      /\ info # NoInfo)
     => info' >= info]_vars

(***************************************************************************)
(* C10: a response whose admin signature does not verify or whose          *)
(* computorIndex is not NUMBER_OF_COMPUTORS changes neither the status,    *)
(* the published snapshot nor the response table; and with one such peer   *)
(* and two agreeing peers the status reaches 2 and never 3.                *)
(***************************************************************************)
C10_RejectedFrameIsInert ==
  (\E i \in Slots : arrivals'[i].invalid > arrivals[i].invalid)
    => UNCHANGED <<latestComputerState, computerStateResponsesByTimestamp>>

C10_TwoValidReachTwo ==
  OneInvalidTwoAgree => (latestComputerState.status = 2 /\ roundInfo = <<1, 2>>)

C10_InvalidResponseIgnored ==
  [][C10_RejectedFrameIsInert]_vars /\ []C10_TwoValidReachTwo

\* the frame part of C10 on its own
RejectedFrameIsInert == [][C10_RejectedFrameIsInert]_vars

(***************************************************************************)
(* C12: a transfer() call whose energy exceeds the local energy, whose     *)
(* energy is below MIN_ENERGY_AMOUNT or whose destination checksum is      *)
(* wrong throws the matching Error and changes nothing: counter, hash      *)
(* index, known hashes and store stay as they are, no status polling is    *)
(* registered and nothing is broadcast (the `transfer` event of            *)
(* client.js:617 is emitted in the same synchronous stretch as the hash is *)
(* added and the bytes are broadcast).                                     *)
(***************************************************************************)
\* the messages the claim allows for a call with these arguments
ExpectedTransferErrors(destination, amount) ==
  (IF energy < amount THEN {"Insufficient energy."} ELSE {})
    \cup (IF amount < MIN_ENERGY_AMOUNT THEN {"Illegal energy."} ELSE {})
    \cup (IF ~verifyChecksum(destination) THEN {"Invalid checksum"} ELSE {})

C12_RejectedTransferHasNoEffect ==
  [][\A t \in Tasks, destination \in Destinations, amount \in 0 .. MaxEnergy :
       (transfer(t, destination, amount)
          /\ ExpectedTransferErrors(destination, amount) # {})
         => /\ lastError' \in ExpectedTransferErrors(destination, amount)
            /\ UNCHANGED <<counter, energy, hashesByIndex, hashes, database,
                           listeners, tasks, broadcasts>>]_vars

\* a call was refused for lack of energy on a client that already holds a
\* stored transfer
C12_Witness ==
  /\ lastError = "Insufficient energy."
  /\ counter > 0
  /\ database.counter = counter

(***************************************************************************)
(* C13: the batch that follows a returned receipt for the pending transfer *)
(* stored at numeric key k deletes key k, writes the tag-1 record with the *)
(* receipt at the key counter + 1, stores that counter, stores the energy  *)
(* reduced by the amount when this identity is not the destination         *)
(* (clamped at 0) and a signature made for it; once it is written the hash *)
(* is indexed under exactly one numeric key and energy is not negative.    *)
(***************************************************************************)
\* the step is the successful batch of the processed rewrite run by task t
RewriteWritten(t) ==
  /\ tasks[t].op = "processTransferStatus"
  /\ tasks[t].pc = "batch"
  /\ tasks'[t].pc = "written"
  /\ tasks'[t].batch = "ok"

\* the numeric keys under which hash h is indexed
KeysOf(map, h) == {k \in DOMAIN map : map[k] = h}

C13_ProcessedRewrite ==
  [][\A t \in Tasks :
       RewriteWritten(t)
         => LET k == tasks[t].key
                h == tasks[t].hash
                n == tasks[t].counterValue
            IN /\ k \notin DOMAIN database'.records
               /\ n \in DOMAIN database'.records
               /\ Decrypt(n, database'.records[n]) =
                    [tag |-> 1, hash |-> h, receipt |-> tasks[t].receipt.slabs]
               /\ database'.counter = n
               /\ database'.energy = energy'
               /\ database'.signature = Sign(tasks[t].essence)
               /\ Cardinality(KeysOf(hashesByIndex', h)) = 1
               /\ energy' >= 0]_vars

(***************************************************************************)
(* C14: the processed rewrite of a transfer emits `energy` and then        *)
(* `receipt` for that transfer in the step that follows its successful     *)
(* batch, when the tag-1 record is in the store; it emits nothing before   *)
(* the batch has been written and nothing when the batch failed.           *)
(***************************************************************************)
\* the step is taken by the processed rewrite running as task t
RewriteSteps(t) == tasks[t].op = "processTransferStatus" /\ tasks'[t] # tasks[t]

\* the store holds the hash as a processed (tag-1) record
StoredProcessed(db, h) ==
  \E k \in DOMAIN db.records :
    Decrypt(k, db.records[k]).tag = 1 /\ Decrypt(k, db.records[k]).hash = h

C14_EnergyThenReceiptAfterRewrite ==
  [][\A t \in Tasks :
       RewriteSteps(t)
         => IF tasks[t].pc = "written" /\ tasks[t].batch = "ok"
            THEN /\ emitted' = <<Event("energy", 0, energy'),
                                 Event("receipt", tasks[t].hash, 0)>>
                 /\ StoredProcessed(database, tasks[t].hash)
            ELSE emitted' = <<>>]_vars

\* a rewrite has emitted its two events
C14_Witness ==
  /\ Len(emitted) = 2
  /\ emitted[1].type = "energy"
  /\ emitted[2].type = "receipt"
  /\ StoredProcessed(database, emitted[2].hash)
  /\ emitted[2].hash \notin DOMAIN listeners

(***************************************************************************)
(* C15: a socket that stays unopened is closed by its connect timeout, and *)
(* every slot whose socket is closed gets a socket that is connecting or   *)
(* open again, also with an empty publicPeers queue and with all three     *)
(* sockets closed.                                                         *)
(***************************************************************************)
C15_ClosedSocketReconnects ==
  \A i \in Slots :
    /\ (readyState[i] = CONNECTING) ~> (readyState[i] # CONNECTING)
    /\ (readyState[i] = CLOSED) ~> (readyState[i] \in {CONNECTING, OPEN})

\* the first half of C15 on its own
UnopenedSocketIsClosed ==
  \A i \in Slots : (readyState[i] = CONNECTING) ~> (readyState[i] # CONNECTING)

(***************************************************************************)
(* C16: setPeer(i, ip) with the address socket i already has changes       *)
(* nothing (no terminate, no new socket, no `close` event); with another   *)
(* address it terminates socket i and opens a new socket in slot i towards *)
(* that address, and the two other slots and the queue stay as they are.   *)
(***************************************************************************)
\* everything about the slots other than index is unchanged
OtherSlotsUnchanged(index) ==
  \A j \in Slots \ {index} :
    /\ ip'[j] = ip[j]
    /\ readyState'[j] = readyState[j]
    /\ timeout'[j] = timeout[j]

C16_SetPeerRestartsOnlyOnChange ==
  [][\A index \in Slots, address \in Addresses :
       setPeer(index, address)
         => IF ip[index] = address
            THEN /\ UNCHANGED <<ip, readyState, timeout, publicPeers>>
                 /\ socketLog' = <<Did("setPeer", index)>>
            ELSE /\ ip'[index] = address
                 /\ readyState'[index] = CONNECTING
                 /\ timeout'[index]
                 /\ socketLog' = <<Did("setPeer", index), Did("terminate", index),
                                   Did("open", index)>>
                 /\ OtherSlotsUnchanged(index)
                 /\ UNCHANGED publicPeers]_vars

\* setPeer has just moved a slot to another address while another socket
\* was open
C16_Witness ==
  \E index \in Slots :
    /\ socketLog = <<Did("setPeer", index), Did("terminate", index), Did("open", index)>>
    /\ ip[index] # peers[index]
    /\ readyState[index] = CONNECTING
    /\ \E j \in Slots \ {index} : readyState[j] = OPEN

(***************************************************************************)
(* C17: when the socket of slot i closes and publicPeers is not empty, the *)
(* head of the queue is removed and slot i gets a new socket towards that  *)
(* address; when the queue is empty afterwards and some socket is open, a  *)
(* peer-exchange request is handed to an open socket.                      *)
(***************************************************************************)
\* the last step handed a peer-exchange request to a socket that is open
RequestedOnOpenSocket ==
  \E k \in 1 .. Len(socketLog') :
    /\ socketLog'[k].what = "exchangePublicPeers"
    /\ readyState'[socketLog'[k].slot] = OPEN

C17_CloseSwapsToQueuedPeer ==
  [][\A i \in Slots :
       onclose(i)
         => /\ publicPeers # <<>>
                => /\ publicPeers' = Tail(publicPeers)
                   /\ ip'[i] = Head(publicPeers)
                   /\ readyState'[i] = CONNECTING
            /\ (publicPeers' = <<>> /\ \E j \in Slots : readyState'[j] = OPEN)
                => RequestedOnOpenSocket]_vars

\* C17 for the closes whose queued address differs from the address of the
\* socket that closed
CloseSwapsToAnotherPeer ==
  [][\A i \in Slots :
       onclose(i)
         => /\ (publicPeers # <<>> /\ Head(publicPeers) # ip[i])
                => /\ publicPeers' = Tail(publicPeers)
                   /\ ip'[i] = Head(publicPeers)
                   /\ readyState'[i] = CONNECTING
            /\ (publicPeers' = <<>> /\ \E j \in Slots : readyState'[j] = OPEN)
                => RequestedOnOpenSocket]_vars

(***************************************************************************)
(* C11: whenever more than computerStateSynchronizationTimeoutDuration +   *)
(* computerStateSynchronizationDelayDuration has passed since the status   *)
(* last increased, then, unless the status increases first, the engine     *)
(* emits `info` with status 0 and the comparison rightOffset is 1.         *)
(***************************************************************************)
\* computerStateSynchronizationRoutine has just run and published status 0
DesyncPublished ==
  /\ synchronizationTimer = DesyncAfter
  /\ info = EmitInfo(0)
  /\ latestComputerState.status = 0
  /\ computerStateComparisonRightOffset = 1

C11_SilenceEmitsStatusZero ==
  (sinceSynchronization > DesyncAfter)
    ~> (DesyncPublished \/ sinceSynchronization <= DesyncAfter)

\* status 0 published after a round that had raised the status
C11_Witness ==
  /\ DesyncPublished
  /\ sinceSynchronization > DesyncAfter
  /\ latestComputerState.bytes # NoResponse

(***************************************************************************)
(* C18: at launch the essence signature is verified only after every       *)
(* record of the replay stream has been processed; when the verification   *)
(* fails, an `error` event is emitted, no `energy`, `transfer`,            *)
(* `transferStatus` or `receipt` event is emitted, and the in-memory       *)
(* counter, energy and hash index are still zero.                          *)
(***************************************************************************)
\* no record of the store is still on its way through onData
EveryRecordProcessed ==
  /\ \A i \in 1 .. Len(stream) : stream[i].name # "record"
  /\ \A i \in 1 .. Len(crypto.reactions) : crypto.reactions[i].fn # "onData"
  /\ \A i \in 1 .. Len(microtasks) : microtasks[i].fn # "onData"

\* the event types in `events`
TypesOf(events) == {events[i].type : i \in 1 .. Len(events)}

C18_FailedVerificationExposesNothing ==
  [][onEndAfterCrypto
       => /\ EveryRecordProcessed'
          /\ ~EssenceVerifies
               => /\ TypesOf(emitted') = {"error"}
                  /\ counter' = 0
                  /\ energy' = 0
                  /\ hashesByIndex' = <<>>]_vars

(***************************************************************************)
(* C19: during the replay a stored record (tag 0 or tag 1) whose transfer  *)
(* signature does not verify is skipped: it adds no hash, no transfer and  *)
(* no receipt and schedules no status polling; and an `error` event is     *)
(* emitted for it.                                                         *)
(***************************************************************************)
\* the records of the store whose transfer signature does not verify
UnverifiedRecords ==
  {Decrypt(k, database.records[k]) : k \in DOMAIN database.records}
    \cap {plain \in UNION {StoredTransfers(k) : k \in 1 .. MaxRecords} : ~plain.signature}

\* onData has reached the signature check of such a record
AtUnverifiedRecord ==
  /\ microtasks # <<>>
  /\ Head(microtasks).fn = "onData" /\ Head(microtasks).at = "crypto"
  /\ Decrypt(Head(microtasks).key, database.records[Head(microtasks).key]) \in UnverifiedRecords

\* nothing of the replayed state holds the record `plain`
Skipped(plain) ==
  /\ \A k \in DOMAIN hashesByIndex : hashesByIndex[k] # plain.hash
  /\ plain.hash \notin hashes
  /\ \A i \in 1 .. Len(transfers) : transfers[i].hash # plain.hash
  /\ \A i \in 1 .. Len(transferStatuses) : transferStatuses[i] # plain.hash
  /\ \A i \in 1 .. Len(receipts) : receipts[i] # plain.hash
  /\ plain.hash \notin DOMAIN listeners
  /\ latestUnprocessedTransaction.hash # plain.hash

C19_UnverifiedRecordSkippedWithError ==
  [][(AtUnverifiedRecord /\ onDataAfterCrypto)
       => /\ \A plain \in UnverifiedRecords : Skipped(plain)'
          /\ \A i \in 1 .. Len(microtasks') :
               microtasks'[i] # Job("onData", "transferObject", Head(microtasks).key)
          /\ "error" \in TypesOf(emitted')]_vars

(***************************************************************************)
(* C20: at the end of the replay at launch, every unprocessed (tag-0)      *)
(* record of the store whose timestamp lies at least 60 seconds before the *)
(* current timestamp is handed to connection.broadcastTransfer, so every   *)
(* stored transfer without a receipt is re-broadcast at each launch.       *)
(***************************************************************************)
\* the unprocessed transfers of the store that are due for a re-broadcast
DueTransfers ==
  {plain \in {Decrypt(k, database.records[k]) : k \in DOMAIN database.records} :
     /\ plain.tag = 0
     /\ plain.signature
     /\ Now - plain.timestamp >= RebroadcastAfter}

C20_EveryDueTransferRebroadcast ==
  [][(onEndAfterCrypto /\ EssenceVerifies)
       => \A plain \in DueTransfers : plain.hash \in broadcasts']_vars

(***************************************************************************)
(* C21: importReceipt() of a receipt that passes the three verifications   *)
(* and whose transfer is not known yet writes one batch (record, counter,  *)
(* energy, signature) in which the energy is the previous energy plus the  *)
(* amount when this identity is the destination, minus the amount and not  *)
(* below 0 when it is the source, and the previous energy when source and  *)
(* destination are equal or this identity is neither; a receipt that fails *)
(* a verification changes nothing and emits nothing.                       *)
(***************************************************************************)
\* the energy the claim states for the transfer x imported at energy e
ClaimedEnergy(x, e) ==
  IF x.source = x.destination THEN e
  ELSE IF x.destination = "self" THEN e + x.energy
  ELSE IF x.source = "self" THEN (IF e - x.energy < 0 THEN 0 ELSE e - x.energy)
  ELSE e

\* the batch of importReceipt has been written for the call in slot t
ImportWritten(t) ==
  /\ tasks[t].op = "importReceipt"
  /\ tasks[t].pc = "written"
  /\ tasks[t].batch = "ok"

C21_ImportAdjustsEnergy ==
  [][\A t \in Tasks :
       /\ (importReceiptAfterCrypto(t) /\ tasks[t].receipt \notin AcceptedReceipts)
            => /\ UNCHANGED <<counter, energy, hashesByIndex, hashes, database, receiptEvents>>
               /\ emitted' = <<>>
               /\ tasks'[t] = NoTask
       /\ (importReceiptWrite(t, "ok"))
            => /\ ReceiptAccepted(tasks[t].receipt)
               /\ database'.energy = ClaimedEnergy(tasks[t].receipt.transfer, tasks[t].energyCopy)
               /\ database'.counter = tasks[t].counterValue
               /\ tasks[t].counterValue \notin DOMAIN database.records
               /\ Decrypt(tasks[t].counterValue, database'.records[tasks[t].counterValue]).tag = 1
               /\ Decrypt(tasks[t].counterValue, database'.records[tasks[t].counterValue]).hash
                    = tasks[t].hash
               /\ database'.signature # database.signature
       /\ (ImportWritten(t) /\ importReceiptAfterWrite(t))
            => /\ energy' = ClaimedEnergy(tasks[t].receipt.transfer, tasks[t].energyCopy)
               /\ energy' = database.energy
               /\ emitted'[1] = Event("energy", 0, energy')]_vars

\* an outgoing transfer imported at energy 0: the clamp has acted
C21_Witness ==
  /\ ImportWritten(1)
  /\ tasks[1].receipt.transfer = OutgoingTransfer
  /\ tasks[1].energyCopy = 0
  /\ database.energy = 0

(***************************************************************************)
(* C22: the status the engine holds, and the status of every `info` event, *)
(* is one of 0, 1, 2, 3 after any sequence of rounds, arrivals (repeated   *)
(* ones from one socket included), timeouts and close().                   *)
(***************************************************************************)
C22_StatusInRange ==
  /\ latestComputerState.status \in 0 .. 3
  /\ info \in {NoInfo} \cup 0 .. 3
  /\ \A k \in 1 .. Len(roundInfo) : roundInfo[k] \in 0 .. 3

\* close() has been called in a round in which one socket answered twice and
\* a snapshot was published
C22_Witness ==
  /\ synchronizationTimer = Cleared
  /\ latestComputerState.status = 0
  /\ info = EmitInfo(0)
  /\ \E k \in 1 .. Len(roundInfo) : roundInfo[k] >= 2
  /\ \E i \in Slots : arrivals[i].accepted >= 2

\* sockets that are connecting or connected: those of the current `sockets`
\* array and those an open() dropped from it without terminating them
\* (connection.js:399-401)
LiveSockets ==
  Cardinality({i \in Slots : Live(readyState[i])})
    + earlier[0] + earlier[1] + earlier[2]

\* chains of getComputerStateRoutine timers: the one the constructor started
\* (connection.js:927) and one per later open(); no handle to the timer of
\* connection.js:882 is kept, so none of them is ever cancelled
PollingLoops == 1 + Len(routines)

\* C23: after any sequence of connection(), open(), setPeer() and close()
\* there are at most three live sockets and at most one computer-state
\* polling loop.
C23_ThreeSocketsOneLoop ==
  /\ LiveSockets <= NUMBER_OF_CONNECTIONS
  /\ PollingLoops <= 1

\* C24: each successful transfer() produces one new record under a numeric
\* key no other record has been written to: no step replaces the record
\* stored under a numeric key by the record of another transfer.
C24_NoKeyWrittenTwice ==
  [][\A k \in DOMAIN database.records \cap DOMAIN database'.records :
       Decrypt(k, database'.records[k]).hash = Decrypt(k, database.records[k]).hash]_vars

\* the replay is over and no call or handler is suspended
Finished ==
  /\ \A t \in Tasks : tasks[t] = NoTask
  /\ stream = <<>>
  /\ microtasks = <<>>
  /\ crypto.reactions = <<>>

\* the energy of the store at launch, plus the imported incoming transfer and
\* minus the processed outgoing transfer where their batch was written
AccountedEnergy ==
  MaxEnergy
    + Cardinality({e \in receiptEvents : e.hash = IncomingTransfer.hash})
    - Cardinality({e \in receiptEvents : e.hash = MaxCalls + 1})

\* C25: once every receipt handler and importReceipt call has finished, the
\* in-memory energy equals the energy of the last successful batch and
\* accounts for exactly the operations whose batch succeeded.
C25_EnergyAccountsForSucceededBatches ==
  Finished =>
    /\ energy = database.energy
    /\ energy = AccountedEnergy

\* the step raises the status to 2 or 3 and publishes a snapshot
\* (connection.js:553-571)
Advances ==
  /\ latestComputerState'.status >= 2
  /\ latestComputerState'.status > latestComputerState.status

\* the slots whose response of the round carries the signature of the
\* published snapshot
Agreeing(table, published) ==
  {j \in Slots : table[j] # NoResponse /\ table[j].signature = published.signature}

\* C26: when the status advances to 2 or 3, the published snapshot is a
\* response whose signature is identical to that of at least one other
\* slot's response of the same round (both others at status 3): the number
\* of slots holding that signature is at least the new status.
C26_PublishedSnapshotHasQuorum ==
  [][Advances =>
       \E ts \in DOMAIN computerStateResponsesByTimestamp' :
         Cardinality(Agreeing(computerStateResponsesByTimestamp'[ts],
                              latestComputerState'.bytes))
           >= latestComputerState'.status]_vars

\* the numeric keys under which the store holds a record of the transfer h
\* with tag `tag`
RecordsOf(h, tag) ==
  {k \in DOMAIN database.records :
     /\ Decrypt(k, database.records[k]).hash = h
     /\ Decrypt(k, database.records[k]).tag = tag}

\* the handler in slot t subtracts the amount of its transfer in this step
\* (client.js:183-186)
Subtracts(t) ==
  /\ tasks[t].op = "processTransferStatus"
  /\ tasks[t].pc = "id"
  /\ tasks'[t].pc = "batch"

\* the handler in slot t writes the processed record of its transfer in this
\* step (client.js:213-228)
Rewrites(t) ==
  /\ tasks[t].op = "processTransferStatus"
  /\ tasks[t].pc = "batch"
  /\ tasks'[t].batch = "ok"

\* C27: the amount of an outgoing transfer is subtracted and its record is
\* rewritten as processed at most once: no handler subtracts the amount or
\* writes a processed record of a transfer the store already holds a
\* processed record of.
C27_ProcessedAtMostOnce ==
  [][\A t \in Tasks :
       Subtracts(t) \/ Rewrites(t) => RecordsOf(tasks[t].hash, 1) = {}]_vars

(***************************************************************************)
(* C28: a slab is counted in the tally of a poll only if its epoch is the  *)
(* epoch of the snapshot captured when the poll started, its tick is not   *)
(* greater than that snapshot's tick, the timestamp it echoes is the       *)
(* requestTimestamp of the poll and its signature verifies under the       *)
(* snapshot key of the reporting computor; a frame without such a slab     *)
(* leaves the state of every poll as it was.                               *)
(***************************************************************************)
\* the slab passes the four tests against the state of the poll for its digest
Countable(slab, map) ==
  /\ slab.digest \in DOMAIN map
  /\ slab.epoch = Epoch(map[slab.digest].computerState)
  /\ slab.tick <= map[slab.digest].computerState.tick
  /\ slab.timestamp = map[slab.digest].requestTimestamp
  /\ Verify(computorPublicKeys(map[slab.digest].computerState)[slab.computorIndex],
            SlabDigest(slab.digest, slab.status, slab.computorIndex, slab.epoch, slab.tick),
            slab.signature)

C28_CountedSlabsAreVerified ==
  [][/\ \A n \in 1 .. Len(pollLog'.counted) :
          Countable(pollLog'.counted[n], transferStatusResponsesStateByDigest)
     /\ (polls' = polls /\ pollLog'.counted = <<>>)
          => transferStatusResponsesStateByDigest' = transferStatusResponsesStateByDigest]_vars

(***************************************************************************)
(* C29: a poll concludes (its resolvers are called and its state is        *)
(* dropped) exactly when one of the counts unseen, seen or processed of    *)
(* the `transferStatus` event reaches the threshold, it resolves with the  *)
(* counts of that event, and a receipt is assembled only when the          *)
(* processed count reached the threshold.                                  *)
(***************************************************************************)
\* one of the counts the event exposes reached the threshold
Reached(event) ==
  \/ event.unseen >= QuorumThreshold
  \/ event.seen >= QuorumThreshold
  \/ event.processed >= QuorumThreshold

\* the resolvers of the poll were called with the counts of the event
Concluded(event, log) ==
  \E m \in 1 .. Len(log.resolutions) : log.resolutions[m].status = event

C29_ConcludesExactlyAtThreshold ==
  [][/\ \A n \in 1 .. Len(pollLog'.events) :
          /\ Reached(pollLog'.events[n]) <=> Concluded(pollLog'.events[n], pollLog')
          /\ Concluded(pollLog'.events[n], pollLog')
               => pollLog'.events[n].hash \notin DOMAIN transferStatusResponsesStateByDigest'
     /\ \A m \in 1 .. Len(pollLog'.resolutions) :
          pollLog'.resolutions[m].receipt # NoPollReceipt
            => pollLog'.resolutions[m].status.processed >= QuorumThreshold]_vars

(***************************************************************************)
(* C30: importReceipt() accepts a receipt (advances the counter, assigns   *)
(* the energy, later emits `receipt`) only if the slabs that make up its   *)
(* processed votes carry the hash of the transfer the receipt contains.    *)
(***************************************************************************)
\* importReceipt passes the test of client.js:767 in this step
Accepts(t) ==
  /\ tasks[t].op = "importReceipt"
  /\ tasks[t].pc = "crypto"
  /\ tasks'[t].pc = "batch"

C30_SlabsAreAboutTheTransfer ==
  [][/\ \A t \in Tasks :
          Accepts(t) => tasks[t].receipt.slabs.transferHash = tasks[t].receipt.transfer.hash
     /\ \A e \in receiptEvents' \ receiptEvents : e.slabs.transferHash = e.hash]_vars

(***************************************************************************)
(* C31: nothing is written to the store while the replay of the            *)
(* constructor runs, and nothing is written to a store whose essence       *)
(* signature the replay did not verify; an empty store may be written.     *)
(***************************************************************************)
\* the read stream has ended and no continuation of onData or onEnd is left
ReplayFinished ==
  /\ stream = <<>>
  /\ \A n \in 1 .. Len(microtasks) : microtasks[n].fn \notin {"onData", "onEnd"}
  /\ \A n \in 1 .. Len(crypto.reactions) : crypto.reactions[n].fn \notin {"onData", "onEnd"}

\* the essence onData rebuilds from a store: its counter and energy, and the
\* hashes of the records that pass the checks of onData
RebuiltEssence(db) ==
  databaseEssence(IF db.counter = Absent THEN 0 ELSE db.counter,
                  IF db.energy = Absent THEN 0 ELSE db.energy,
                  [k \in {j \in DOMAIN db.records : RecordVerifies(Decrypt(j, db.records[j]))} |->
                     Decrypt(k, db.records[k]).hash])

\* onEnd finds the signature of the store valid
StoreVerifies(db) == Verify("self", RebuiltEssence(db), db.signature)

C31_NoWriteBeforeVerifiedReplay ==
  [][database' # database =>
       \/ replay.snapshot = EmptyDatabase
       \/ ReplayFinished /\ StoreVerifies(replay.snapshot)]_vars

\* the status requests the last step sent are about polls still outstanding
SentForOutstandingPolls ==
  \A i \in Slots : \A n \in 1 .. Len(requestsBySocket[i].sent) :
     requestsBySocket[i].sent[n].digest \in DOMAIN transferStatusResponsesStateByDigest

\* a resend set is held for outstanding polls only
ResendSetsOfOutstandingPolls ==
  DOMAIN transferStatusRequestsToResendByDigest
    \subseteq DOMAIN transferStatusResponsesStateByDigest

\* the computor indexes of the requests about `digest`, in the order of `requests`
RECURSIVE IndexesAbout(_, _)
IndexesAbout(digest, requests) ==
  IF requests = <<>> THEN <<>>
  ELSE (IF Head(requests).digest = digest THEN <<Head(requests).computorIndex>> ELSE <<>>)
         \o IndexesAbout(digest, Tail(requests))

\* a socket that opens once the sending loops have ended is scheduled every
\* request of every outstanding poll, in index order
OpenedSocketIsResentAll ==
  \A i \in Slots :
     readyState[i] = CONNECTING /\ readyState'[i] = OPEN /\ requestLoops = <<>> =>
       \A digest \in DOMAIN transferStatusResponsesStateByDigest :
          IndexesAbout(digest, requestsBySocket'[i].toResend)
            = [j \in 1 .. NUMBER_OF_COMPUTORS |-> j - 1]

\* C32: status requests for a transfer hash stop once its poll has concluded:
\* no request for the hash is sent afterwards and no resend set for it is left
\* for a socket that opens later; while the poll is outstanding, a socket that
\* opens is sent all its requests again, in index order.
C32_RequestsStopAtConclusion ==
  /\ [](SentForOutstandingPolls /\ ResendSetsOfOutstandingPolls)
  /\ [][OpenedSocketIsResentAll]_vars

\* the store holds the provisional record of the polled transfer
ProvisionalRecordPersisted ==
  \E k \in DOMAIN database.records :
     /\ Decrypt(k, database.records[k]).tag = 0
     /\ Decrypt(k, database.records[k]).hash = PolledDigest

\* a `receipt` event was emitted for the polled transfer
ReceiptEmitted == \E e \in receiptEvents : e.hash = PolledDigest

\* C33: a transfer whose provisional record was persisted eventually produces a
\* `receipt` event, given status >= 2, successful batches and computors that
\* answer with processed votes.
C33_PersistedTransferGetsReceipt == ProvisionalRecordPersisted ~> ReceiptEmitted

\* the numeric keys under which the store holds a record of transfer hash h
StoredKeysOf(h) ==
  {k \in DOMAIN database.records : Decrypt(k, database.records[k]).hash = h}

\* the step is the batch of an importReceipt call that took effect
ImportTakesEffect(t) ==
  /\ tasks[t].op = "importReceipt"
  /\ tasks[t].pc = "batch"
  /\ database' # database

\* C34: importing the same receipt more than once, in sequence or in
\* overlapping calls, stores at most one record for its transfer hash and
\* advances the counter at most once: a batch of importReceipt takes effect
\* only for a hash the store has no record of.
C34_ReceiptImportedOnce ==
  /\ [](\A x \in {IncomingTransfer, OutgoingTransfer} : Cardinality(StoredKeysOf(x.hash)) <= 1)
  /\ [][\A t \in Tasks : ImportTakesEffect(t) => StoredKeysOf(tasks[t].hash) = {}]_vars

\* at most one round has a response table
OneResponseTable == Cardinality(DOMAIN computerStateResponsesByTimestamp) <= 1

\* no table is kept of a round whose three responses have arrived
CompleteTableIsDropped ==
  \A ts \in DOMAIN computerStateResponsesByTimestamp :
     \E i \in Slots : computerStateResponsesByTimestamp[ts][i] = NoResponse

\* a verified response echoing a timestamp that has no table leaves the status
\* and the published snapshot as they are
StaleResponseIsInert ==
  (\E i \in Slots : arrivals'[i].stale > arrivals[i].stale)
    => latestComputerState' = latestComputerState

\* C35: the response table of a round is dropped when the next request is
\* issued or once its three responses have arrived, so at most one table
\* exists, and a response echoing the timestamp of a dropped round changes
\* neither the status nor the published snapshot.
C35_ResponseTableLifetime ==
  /\ [](OneResponseTable /\ CompleteTableIsDropped)
  /\ [][StaleResponseIsInert]_vars

\* the 2-bit pattern of computor j in the status bytes of a slab: byte j / 4,
\* bits 7 - 2 * (j % 4) and 6 - 2 * (j % 4)
PatternOf(status, j) == (status[j \div 4] \div (2 ^ (6 - 2 * (j % 4)))) % 4

\* 00 is unseen, 01 seen, 10 processed; the reserved 11 is neither
VoteOfPattern(pattern) == IF pattern = 1 THEN 1 ELSE IF pattern = 2 THEN 2 ELSE 0

\* the votes stored for the reporter of a slab the last message had counted
\* are those its status bytes hold
DecodedAsLaidOut ==
  \A n \in 1 .. Len(pollLog.counted) :
     LET slab == pollLog.counted[n]
     IN slab.digest \in DOMAIN transferStatusResponsesStateByDigest =>
          LET statuses == transferStatusResponsesStateByDigest[slab.digest].statuses
          IN /\ slab.computorIndex \in DOMAIN statuses
             /\ \A j \in Computors :
                   statuses[slab.computorIndex][j] = VoteOfPattern(PatternOf(slab.status, j))

\* the votes with value v that reporters gave about other computors
VotesAboutOthers(statuses, v) ==
  Cardinality({p \in (DOMAIN statuses) \X Computors :
                 p[1] # p[2] /\ statuses[p[1]][p[2]] = v})

\* the `transferStatus` event emitted last tallies the stored votes without
\* the votes of reporters about themselves
TalliedWithoutOwnVotes ==
  (/\ pollLog.events # <<>>
   /\ pollLog.events[Len(pollLog.events)].hash \in DOMAIN transferStatusResponsesStateByDigest)
    => LET event == pollLog.events[Len(pollLog.events)]
           statuses == transferStatusResponsesStateByDigest[event.hash].statuses
       IN /\ event.seen = VotesAboutOthers(statuses, 1) \div (NUMBER_OF_COMPUTORS - 1)
          /\ event.processed = VotesAboutOthers(statuses, 2) \div (NUMBER_OF_COMPUTORS - 1)

\* C36: decoding the status bitfield of a reporter yields for every computor
\* j the vote held in byte j / 4 at bits 7 - 2 * (j % 4) and 6 - 2 * (j % 4),
\* with 00 unseen, 01 seen and 10 processed; the reserved 11 is never counted
\* as seen or processed, and the aggregate leaves out the vote of a reporter
\* about itself.
C36_StatusBitfieldDecoded == DecodedAsLaidOut /\ TalliedWithoutOwnVotes

\* a counted slab of computor 0 that marks itself and two others seen and
\* the last computor with the reserved pattern: the event reports no seen
\* vote, the two votes about others being short of one per computor
C36_Witness ==
  /\ Len(pollLog.counted) = 1
  /\ pollLog.counted[1].digest \in DOMAIN transferStatusResponsesStateByDigest
  /\ pollLog.counted[1].computorIndex = 0
  /\ \A j \in 0 .. 2 : PatternOf(pollLog.counted[1].status, j) = 1
  /\ PatternOf(pollLog.counted[1].status, 3) = 3
  /\ pollLog.events[1].seen = 0
  /\ pollLog.events[1].processed = 0
  /\ DOMAIN transferStatusResponsesStateByDigest[PolledDigest].statuses = {0}

\* C37: successive calls of timestamp() within one process return strictly
\* increasing values, also when two calls fall into the same millisecond and
\* when the wall clock moves backwards.
C37_TimestampsIncrease ==
  \A m, n \in 1 .. Len(stamps) : m < n => stamps[m].ts < stamps[n].ts

\* three calls: the second in the millisecond of the first, the third after
\* the clock was set back
C37_Witness ==
  /\ Len(stamps) >= 3
  /\ stamps[2].date = stamps[1].date
  /\ stamps[3].date < stamps[2].date

\* the fields of the slab at offset k of a frame, read relative to the start
\* of the frame
OwnStatusFields(response, k) ==
  [digest |-> response[k].slab.digest,
   timestamp |-> response[1].slab.timestamp,
   computorIndex |-> response[k].slab.computorIndex,
   epoch |-> response[k].slab.epoch,
   tick |-> response[k].slab.tick]

\* the frames of a message, each delimited by its own size prefix, with its
\* own request kind and sub-kind and the fields read relative to its start
FramesOf(data) ==
  LET RECURSIVE Split(_)
      Split(o) ==
        IF o >= Len(data) THEN <<>>
        ELSE LET response == SubSeq(data, o + 1, Min(o + data[o + 1].size, Len(data)))
                 request == response[1].request
                 type == response[1].type
             IN <<[offset |-> o, response |-> response, request |-> request, type |-> type,
                   fields |-> IF request = "WEBSOCKET" /\ type = "GET_TRANSFER_STATUS"
                              THEN [k \in 1 .. Len(response) |-> OwnStatusFields(response, k)]
                              ELSE IF request = "EXCHANGE_PUBLIC_PEERS"
                              THEN GossipOf(response)
                              ELSE <<>>]>>
                  \o Split(o + Len(response))
  IN Split(0)

\* C38: when one inbound message concatenates several frames, of different
\* sizes and kinds, every frame is delimited by its own size prefix,
\* dispatched according to its own request kind and sub-kind, and its fields
\* are read relative to its own start.
C38_FramesHandledOneByOne == frameLog.dispatched = FramesOf(frameLog.data)

\* after the call no socket is connecting or open, none of the steps the
\* sockets take afterwards emits `close`, and no synchronization timer is
\* pending
SocketsTerminated ==
  /\ \A i \in Slots : ~ Live(readyState'[i])
  /\ \A n \in 1 .. Len(socketLog') : socketLog'[n].what # "close"
  /\ synchronizationTimer' = Cleared
  /\ \A k \in 1 .. Len(routines') : routines'[k].synchronization = Cleared

\* the call returned and emitted `info` with status 0
ClosedWithInfo ==
  /\ lastClose' = "returned"
  /\ latestComputerState'.status = 0
  /\ info' = EmitInfo(0)

\* C39: connection.close() and client.terminate() succeed in every reachable
\* state, also before a computer-state snapshot has been accepted: all
\* sockets are terminated without `close` events, the desync timer is
\* cleared and an `info` event with status 0 is emitted.
C39_CloseSucceedsInEveryState ==
  [][CloseConnection => (SocketsTerminated /\ ClosedWithInfo)]_vars

\* how often request n was handed to socket.send
TimesSent(n) == Cardinality({k \in 1 .. Len(computor.sent) : computor.sent[k].id = n})

\* no request is transmitted twice
SentAtMostOnce ==
  \A n \in 1 .. Len(AllRequests(computor.responsesByType)) : TimesSent(n) <= 1

\* while the socket is open every request passed to send() has been
\* transmitted
SentOnceOpen ==
  computor.readyState = OPEN =>
    \A n \in 1 .. Len(AllRequests(computor.responsesByType)) : TimesSent(n) >= 1

\* the remote closed the socket and the client may create another
ClosedByRemote ==
  /\ computor.readyState = CLOSED
  /\ computor.reconnectTimeout
  /\ computor.sockets < MaxSockets

\* a new socket was created, or close() was called
ReopenedOrClosed == computor.readyState = CONNECTING \/ computor.closeCalled

\* once close() was called no socket is created
NoSocketAfterClose == computor.closeCalled => computor'.sockets = computor.sockets

\* C40: in the single-socket computor client each request passed to send()
\* is transmitted exactly once, not twice when the socket opens after the
\* request was queued and not again after a later reconnect; a socket closed
\* by the remote is reopened after reconnectTimeoutDuration, and never after
\* close() was called.
C40_RequestsSentOnceSocketReopened ==
  /\ [](SentAtMostOnce /\ SentOnceOpen)
  /\ (ClosedByRemote ~> ReopenedOrClosed)
  /\ [][NoSocketAfterClose]_vars
====
